---- MODULE Spec2Model ----
(***************************************************************************)
(* Model of jordanbrobison/tft-analytics.                                  *)
(*                                                                         *)
(* Part 1: RateLimiter (src/src/riot_api/rate_limiter.py), a dual token    *)
(* bucket shared by several threads.                                       *)
(*                                                                         *)
(* Time is counted in ticks of 0.01 s (the sleep floor of acquire is one   *)
(* tick).  Python floats are modelled as exact rationals: token counts are *)
(* stored as integer multiples of 1/TS of a token, where TS is chosen so   *)
(* that the refill of one tick is a whole number of units in both buckets. *)
(* Durations computed by a division by a refill rate (the wait times) are  *)
(* stored multiplied by short_refill_rate * long_refill_rate.              *)
(*                                                                         *)
(* Every `with self._lock:` block is one action: all reads and writes of   *)
(* the bucket fields happen inside such a block, so no other thread can    *)
(* observe or change the fields while one block runs.                      *)
(*                                                                         *)
(* Part 2: RiotAPIClient._make_request with the retries of its session     *)
(* (src/src/riot_api/client.py).                                           *)
(*                                                                         *)
(* Part 3: the two pipelines, fetch_and_save_matches and                   *)
(* fetch_and_save_leaderboard (src/src/data_collection), against the       *)
(* store and the API, run one after another or, for the match pipeline,    *)
(* by several processes at once.  A table of the store is the set of its   *)
(* rows; a transaction is one action.                                      *)
(*                                                                         *)
(* Part 4: the URL of the match-ID request (src/src/riot_api/endpoints.py).*)
(*                                                                         *)
(* Part 5: RiotAPIClient.get_matches_bulk (src/src/riot_api/client.py).    *)
(***************************************************************************)
EXTENDS Integers, Sequences, FiniteSets, TLC

\* ------------------------------------------------------------------ bounds

NumThreads == 2
MaxClock == 3
MaxClockSeq == 6
MaxClockBurst == 6
MaxCost == 2
MaxTimeout == 1
MaxRetries == 2
MaxRequests == 2
MaxRetryAfter == 2
MaxRuns == 2
MaxFaults == 2
MaxCount == 22
MaxEntries == 1
NumRunners == 2
MaxLeaguePoints == 2
MaxStart == 1
MaxBulk == 3
MaxErrorLimit == 2

\* time.sleep floor of acquire: 0.01 s = 1 tick
SleepFloor == 1

Threads == 1..NumThreads
\* the thread of the sequential pipeline and of its client
Caller == CHOOSE t \in Threads : \A u \in Threads : t <= u
Costs == 1..MaxCost
NoTimeout == -1
NoDeadline == -1
\* value of epoch or base_time when that part of the history is not recorded
Off == 0 - 1
Timeouts == {NoTimeout} \cup (0..MaxTimeout)

\* Limiter configurations <<short_limit, short_window, long_limit, long_window>>,
\* windows in ticks.
Configs ==
    { [sl |-> 2, sw |-> 2, ll |-> 3, lw |-> 6],
      [sl |-> 2, sw |-> 1, ll |-> 2, lw |-> 4] }

\* The default configuration of __init__: 20 per 1 s, 100 per 120 s.
DefaultConfig == [sl |-> 20, sw |-> 100, ll |-> 100, lw |-> 12000]

\* ------------------------------------------------------------------ state

VARIABLES
    short_limit, short_window, long_limit, long_window,   \* configuration
    short_tokens, long_tokens,                            \* in units of 1/TS token
    short_last_refill, long_last_refill,                  \* timestamps (ticks)
    clock,                                                \* time.time()
    pc, tokens, deadline, wake,                           \* per thread: acquire() frame
    ev,                                                   \* the step just taken
    granted, granted_at, epoch,                           \* history: cost granted since construction/reset (epoch), in total and per tick
    base_short, base_long, base_time,                     \* history: buckets after the last debit or reset
    max_retries, requests,                                \* RiotAPIClient: retry budget, logical requests begun
    phase, total, attempts, debited, last, result,        \* _make_request frame and its outcome
    raw_players, raw_matches, player_match_history,       \* the store's tables
    data_collection_log,
    upstream,                                             \* what the API answers, after the client's retries
    at, limit_players, stats, run,                        \* fetch_and_save_matches frame
    runs, prev, faults, body_requests,                    \* history: invocations, the previous one, store failures and match-body requests of this one
    datetime_now,                                         \* datetime.now() of the store's insert statements
    session,                                              \* the HTTP session of the client an invocation opens
    calls,                                                \* history: requests of this invocation, per player and per match
    matches_per_player, url,                              \* the count an invocation passes on, the match-ID request built last
    lb,                                                   \* fetch_and_save_leaderboard frame, or that of a roster fetch alone
    racer,                                                \* per process: frame of a fetch_and_save_matches that runs beside others
    bulk                                                  \* get_matches_bulk frame

config == <<short_limit, short_window, long_limit, long_window>>
bucket == <<short_tokens, long_tokens, short_last_refill, long_last_refill>>
frames == <<pc, tokens, deadline, wake>>
hist == <<granted, granted_at, epoch, base_short, base_long, base_time>>
request == <<phase, total, attempts, debited, last, result>>
client == <<max_retries, requests, request>>
endpoint == <<matches_per_player, url>>
others == <<endpoint, lb, racer, bulk>>
\* everything that is not the limiter's
store == <<raw_players, raw_matches, player_match_history, data_collection_log>>
collection == <<upstream, at, limit_players, stats, run, runs, prev, faults, body_requests,
                datetime_now, session, calls>>
pipeline == <<store, collection, others>>
rest == <<client, pipeline>>
vars == <<config, bucket, clock, frames, ev, hist, rest>>

\* ------------------------------------------------------------------ arithmetic

Min(a, b) == IF a <= b THEN a ELSE b
Max(a, b) == IF a >= b THEN a ELSE b

RECURSIVE GCD(_, _)
GCD(a, b) == IF b = 0 THEN a ELSE GCD(b, a % b)

LCM(a, b) == (a * b) \div GCD(a, b)

CeilDiv(a, b) == IF a <= 0 THEN 0 ELSE (a + b - 1) \div b

\* Units per token that make both per-tick refills whole numbers.
TokenScale(sl, sw, ll, lw) == LCM(sw \div GCD(sl, sw), lw \div GCD(ll, lw))

TS == TokenScale(short_limit, short_window, long_limit, long_window)

\* short_refill_rate = short_limit / short_window, in units per tick
short_refill_rate == (short_limit * TS) \div short_window
\* long_refill_rate = long_limit / long_window, in units per tick
long_refill_rate == (long_limit * TS) \div long_window

\* Scale of the stored wait times.
WS == short_refill_rate * long_refill_rate

\* ------------------------------------------------------------------ RateLimiter

\* min(limit, tokens + elapsed * refill_rate)
RefillNoCap(limit, rate, toks, elapsed) == toks + elapsed * rate

RefillWholeLimit(limit, rate, toks, elapsed) == Min(limit, toks + elapsed * limit)

Refill(limit, rate, toks, elapsed) == Min(limit, toks + elapsed * rate)

RefilledShort(now) ==
    Refill(short_limit * TS, short_refill_rate, short_tokens, now - short_last_refill)

RefilledLong(now) ==
    Refill(long_limit * TS, long_refill_rate, long_tokens, now - long_last_refill)

\* self.short_tokens >= tokens and self.long_tokens >= tokens
HasTokensEither(st, lt, c) == st >= c * TS \/ lt >= c * TS

HasTokensStrict(st, lt, c) == st > c * TS /\ lt > c * TS

HasTokens(st, lt, c) == st >= c * TS /\ lt >= c * TS

\* (tokens - self.short_tokens) / (self.short_limit / self.short_window), times WS
ShortWait(c, st) == (c * TS - st) * long_refill_rate

\* (tokens - self.long_tokens) / (self.long_limit / self.long_window), times WS
LongWait(c, lt) == (c * TS - lt) * short_refill_rate

\* wait_time = max(0.01, min(short_wait, long_wait)), times WS
WaitTime(c, st, lt) == Max(SleepFloor * WS, Min(ShortWait(c, st), LongWait(c, lt)))

\* value returned by get_wait_time after its refill, times WS
WaitEstimate(c, st, lt) ==
    IF HasTokens(st, lt, c) THEN 0
    ELSE Max(Max(0, ShortWait(c, st)), Max(0, LongWait(c, lt)))

\* deadline is not None and time.time() >= deadline
TimedOutAlways(dl, now) == now >= dl

TimedOut(dl, now) == dl # NoDeadline /\ now >= dl

Event(op, t, c, ok, val) == [op |-> op, thread |-> t, cost |-> c, ok |-> ok, val |-> val]

\* History kept for the properties only: what was granted when (since epoch), and
\* the bucket contents after the last change that was not a refill (base_*).  Each
\* part is recorded only if Init switched it on.
Granted(c, st, lt) ==
    /\ granted' = IF epoch = Off THEN granted ELSE granted + c
    /\ granted_at' = IF clock \in DOMAIN granted_at
                     THEN [granted_at EXCEPT ![clock] = @ + c]
                     ELSE granted_at
    /\ base_short' = IF base_time = Off THEN base_short ELSE st
    /\ base_long' = IF base_time = Off THEN base_long ELSE lt
    /\ base_time' = IF base_time = Off THEN Off ELSE clock
    /\ UNCHANGED epoch

WasReset ==
    /\ granted' = 0
    /\ granted_at' = [k \in DOMAIN granted_at |-> 0]
    /\ epoch' = IF epoch = Off THEN Off ELSE clock
    /\ base_short' = IF base_time = Off THEN base_short ELSE short_limit * TS
    /\ base_long' = IF base_time = Off THEN base_long ELSE long_limit * TS
    /\ base_time' = IF base_time = Off THEN Off ELSE clock

\* _refill_tokens followed by the check-and-debit of acquire and try_acquire
\* (one `with self._lock:` block).  ok says whether the tokens were granted.
Debit(c, ok) ==
    LET st == RefilledShort(clock)
        lt == RefilledLong(clock)
    IN  /\ ok = HasTokens(st, lt, c)
        /\ short_last_refill' = clock
        /\ long_last_refill' = clock
        /\ IF ok
           THEN /\ short_tokens' = st - c * TS
                /\ long_tokens' = lt - c * TS
                /\ Granted(c, st - c * TS, lt - c * TS)
           ELSE /\ short_tokens' = st
                /\ long_tokens' = lt
                /\ UNCHANGED hist

\* acquire(tokens, timeout): deadline = None if timeout is None else now + timeout
Acquire(t, c, to) ==
    /\ pc[t] = "idle"
    /\ pc' = [pc EXCEPT ![t] = "attempt"]
    /\ tokens' = [tokens EXCEPT ![t] = c]
    /\ deadline' = [deadline EXCEPT ![t] = IF to = NoTimeout THEN NoDeadline ELSE clock + to]
    /\ ev' = Event("acquire", t, c, TRUE, 0)
    /\ UNCHANGED <<config, bucket, clock, wake, hist>>

\* acquire: the first locked block of the loop; returns True when granted
\* (the frame is dropped on return)
Attempt(t) ==
    /\ pc[t] = "attempt"
    /\ \E ok \in BOOLEAN :
        /\ Debit(tokens[t], ok)
        /\ pc' = [pc EXCEPT ![t] = IF ok THEN "idle" ELSE "check_timeout"]
        /\ tokens' = IF ok THEN [tokens EXCEPT ![t] = 0] ELSE tokens
        /\ deadline' = IF ok THEN [deadline EXCEPT ![t] = NoDeadline] ELSE deadline
        /\ ev' = Event("attempt", t, tokens[t], ok, 0)
    /\ UNCHANGED <<config, clock, wake>>

\* acquire: the timeout check; returns False when the deadline has passed
CheckTimeout(t) ==
    /\ pc[t] = "check_timeout"
    /\ IF TimedOut(deadline[t], clock)
       THEN /\ pc' = [pc EXCEPT ![t] = "idle"]
            /\ tokens' = [tokens EXCEPT ![t] = 0]
            /\ deadline' = [deadline EXCEPT ![t] = NoDeadline]
            /\ ev' = Event("timeout", t, tokens[t], FALSE, 0)
       ELSE /\ pc' = [pc EXCEPT ![t] = "compute_wait"]
            /\ UNCHANGED <<tokens, deadline>>
            /\ ev' = Event("no_timeout", t, tokens[t], TRUE, 0)
    /\ UNCHANGED <<config, bucket, clock, wake, hist>>

\* acquire: the second locked block computes wait_time, then time.sleep starts
ComputeWait(t) ==
    /\ pc[t] = "compute_wait"
    /\ LET w == WaitTime(tokens[t], short_tokens, long_tokens)
       IN  /\ wake' = [wake EXCEPT ![t] = clock + CeilDiv(w, WS)]
           /\ ev' = Event("sleep", t, tokens[t], TRUE, w)
    /\ pc' = [pc EXCEPT ![t] = "sleeping"]
    /\ UNCHANGED <<config, bucket, clock, tokens, deadline, hist>>

\* acquire: time.sleep(wait_time) returns after at least wait_time
Wake(t) ==
    /\ pc[t] = "sleeping"
    /\ clock >= wake[t]
    /\ pc' = [pc EXCEPT ![t] = "attempt"]
    /\ wake' = [wake EXCEPT ![t] = 0]
    /\ ev' = Event("wake", t, tokens[t], TRUE, 0)
    /\ UNCHANGED <<config, bucket, clock, tokens, deadline, hist>>

\* try_acquire(tokens)
TryAcquire(t, c) ==
    /\ pc[t] = "idle"
    /\ \E ok \in BOOLEAN :
        /\ Debit(c, ok)
        /\ ev' = Event("try_acquire", t, c, ok, 0)
    /\ UNCHANGED <<config, clock, frames>>

\* get_wait_time(tokens); ev.val is the value returned
GetWaitTime(t, c) ==
    /\ pc[t] = "idle"
    /\ LET st == RefilledShort(clock)
           lt == RefilledLong(clock)
       IN  /\ short_tokens' = st
           /\ long_tokens' = lt
           /\ ev' = Event("get_wait_time", t, c, TRUE, WaitEstimate(c, st, lt))
    /\ short_last_refill' = clock
    /\ long_last_refill' = clock
    /\ UNCHANGED <<config, clock, frames, hist>>

\* reset()
Reset(t) ==
    /\ pc[t] = "idle"
    /\ short_tokens' = short_limit * TS
    /\ long_tokens' = long_limit * TS
    /\ short_last_refill' = clock
    /\ long_last_refill' = clock
    /\ ev' = Event("reset", t, 0, TRUE, 0)
    /\ WasReset
    /\ UNCHANGED <<config, clock, frames>>

\* time.time() advances by one tick, up to the horizon
Tick(horizon) ==
    /\ clock < horizon
    /\ clock' = clock + 1
    /\ ev' = Event("tick", 0, 0, TRUE, 0)
    /\ UNCHANGED <<config, bucket, frames, hist>>

\* __init__ of a limiter with configuration c at time 0 (its two readings of
\* time.time() fall in the same tick).  totals, logged and base say which parts
\* of the history are recorded.
Construct(c, totals, logged, base) ==
    /\ short_limit = c.sl
    /\ short_window = c.sw
    /\ long_limit = c.ll
    /\ long_window = c.lw
    /\ short_tokens = c.sl * TokenScale(c.sl, c.sw, c.ll, c.lw)
    /\ long_tokens = c.ll * TokenScale(c.sl, c.sw, c.ll, c.lw)
    /\ clock = 0
    /\ short_last_refill = 0
    /\ long_last_refill = 0
    /\ pc = [t \in Threads |-> "idle"]
    /\ tokens = [t \in Threads |-> 0]
    /\ deadline = [t \in Threads |-> NoDeadline]
    /\ wake = [t \in Threads |-> 0]
    /\ ev = Event("init", 0, 0, TRUE, 0)
    /\ granted = 0
    /\ granted_at = [k \in logged |-> 0]
    /\ epoch = IF totals THEN 0 ELSE Off
    /\ base_short = IF base THEN c.sl * TokenScale(c.sl, c.sw, c.ll, c.lw) ELSE 0
    /\ base_long = IF base THEN c.ll * TokenScale(c.sl, c.sw, c.ll, c.lw) ELSE 0
    /\ base_time = IF base THEN 0 ELSE Off

\* ------------------------------------------------------------------ RiotAPIClient
\* (src/src/riot_api/client.py) One logical request is one call of
\* _make_request: a single rate_limiter.acquire(), then session.get, inside
\* which the mounted urllib3 Retry resends the request on its own.

\* seconds to ticks
TicksPerSecond == 100

\* Retry(backoff_factor=1)
BackoffFactor == 1

\* Retry(status_forcelist=[429, 500, 502, 503, 504])
StatusForcelist == {"429", "500", "502", "503", "504"}

\* requests.exceptions.ConnectionError and Timeout, in place of a response
TransportErrors == {"connection_error", "timeout"}

\* What can come back from one physical attempt: a status with its
\* Retry-After header in seconds (0: no header), or a transport error.
Responses ==
    [status : {"200", "400", "403", "404", "500", "502", "504"} \cup TransportErrors,
     retry_after : {0}]
    \cup [status : {"429", "503"}, retry_after : 0..MaxRetryAfter]

NoResponse == [status |-> "none", retry_after |-> 0, at |-> 0]

\* Retry.is_retry for a GET (an allowed method), and the retry of a connection
\* or read error in urlopen
IsRetry(status) == status \in StatusForcelist \/ status \in TransportErrors

\* Retry.increment: total -= 1, then is_exhausted() is total < 0
IsExhaustedLate(t) == t - 1 < 0 - 1

IsExhausted(t) == t - 1 < 0

RECURSIVE Pow2(_)
Pow2(n) == IF n <= 0 THEN 1 ELSE 2 * Pow2(n - 1)

\* Retry.get_backoff_time after n consecutive errors, in seconds:
\* backoff_factor * 2 ** (n - 1); urllib3 1.x gives 0 after the first error
BackoffTimes(n) ==
    {BackoffFactor * Pow2(n - 1)} \cup (IF n <= 1 THEN {0} ELSE {})

\* Retry.sleep(response): the Retry-After of the response if it has one,
\* else the backoff
SleepTimesBackoffOnly(r, n) == BackoffTimes(n)

SleepTimes(r, n) == IF r.retry_after > 0 THEN {r.retry_after} ELSE BackoffTimes(n)

\* the status dispatch of _make_request: what it returns or raises for a
\* response that session.get handed back
StatusResultAllFatal(status) ==
    IF status = "200" THEN "payload" ELSE "RiotAPIError"

StatusResult(status) ==
    CASE status = "200" -> "payload"
      [] status = "404" -> "DataNotFoundError"
      [] status = "429" -> "RateLimitError"
      [] OTHER -> "RiotAPIError"

\* time.sleep(retry_after) of the 429 branch, in seconds
StatusSleep(r) ==
    IF r.status = "429" THEN (IF r.retry_after > 0 THEN r.retry_after ELSE 60) ELSE 0

\* class hierarchy: RateLimitError and DataNotFoundError derive from RiotAPIError
IsRiotAPIError(res) == res \in {"RiotAPIError", "RateLimitError", "DataNotFoundError"}

\* no request in progress
IdleRequest ==
    /\ phase = "idle"
    /\ total = 0
    /\ attempts = 0
    /\ debited = 0
    /\ last = NoResponse
    /\ result = "none"

\* a state without a client
NoClient ==
    /\ max_retries = 0
    /\ requests = 0
    /\ IdleRequest

\* RiotAPIClient(api_key, max_retries=m)
NewClient(m) ==
    /\ max_retries = m
    /\ requests = 0
    /\ IdleRequest

\* _make_request is entered and calls self.rate_limiter.acquire()
MakeRequest ==
    /\ phase = "idle"
    /\ requests < MaxRequests
    /\ Acquire(Caller, 1, NoTimeout)
    /\ phase' = "acquire"
    /\ requests' = requests + 1
    /\ total' = max_retries
    /\ attempts' = 0
    /\ debited' = granted
    /\ last' = NoResponse
    /\ result' = "none"
    /\ UNCHANGED max_retries

\* _make_request returns or raises res
Finish(res) ==
    /\ phase' = "idle"
    /\ result' = res
    /\ UNCHANGED total

\* One physical attempt of session.get and what follows it: urllib3 resends
\* after its sleep while the response is retryable and retries remain, raises
\* MaxRetryError (RetryError, ConnectionError or Timeout for requests, each
\* caught and raised again as RiotAPIError) when they are used up, and hands
\* any other response back to the status dispatch.
SessionGet ==
    /\ \/ phase = "acquire" /\ pc[Caller] = "idle"
       \/ phase = "retry"
    /\ \E r \in Responses :
        /\ attempts' = attempts + 1
        /\ last' = [status |-> r.status, retry_after |-> r.retry_after, at |-> clock]
        /\ ev' = Event("get", Caller, 0, r.status = "200", 0)
        /\ IF IsRetry(r.status)
           THEN IF IsExhausted(total)
                THEN /\ Finish("RiotAPIError")
                     /\ UNCHANGED clock
                ELSE /\ total' = total - 1
                     /\ phase' = "retry"
                     /\ \E d \in SleepTimes(r, attempts + 1) :
                            clock' = clock + d * TicksPerSecond
                     /\ UNCHANGED result
           ELSE /\ Finish(StatusResult(r.status))
                /\ clock' = clock + StatusSleep(r) * TicksPerSecond
    /\ UNCHANGED <<config, bucket, frames, hist, max_retries, requests, debited>>

\* ------------------------------------------------------------------ match collection
\* (src/src/data_collection/fetch_matches.py) fetch_and_save_matches against
\* the store and the API.  A call of the client is represented by what
\* _make_request ends with once its retries are done: a payload or one of the
\* errors.  Every statement that talks to the store may fail (the store is
\* unreachable, a statement is refused): it then raises and, inside a
\* transaction, leaves the store as it was.

\* players that the leaderboard can list, in descending order of the
\* league_points they have in a roster saved before a match collection
Ranking == <<"p1", "p2">>

Players == {Ranking[k] : k \in DOMAIN Ranking}

\* the tiers of the league endpoints
Tiers == {"MASTER", "GRANDMASTER", "CHALLENGER"}

\* a row of raw_players; rank, wins, losses and the four flags are written and
\* overwritten exactly as league_points is and are left out
PlayerRow(puuid, tier, lp, fetched, updated) ==
    [puuid |-> puuid, tier |-> tier, league_points |-> lp,
     fetched_at |-> fetched, updated_at |-> updated]

\* raw_players when a leaderboard run has saved the players of `known`
RosterOf(known) ==
    {PlayerRow(Ranking[k], "GRANDMASTER", Len(Ranking) + 1 - k, 0, 0) :
        k \in {j \in DOMAIN Ranking : Ranking[j] \in known}}

\* the puuid column of raw_players, the match_id column of raw_matches
Puuids(players) == {r.puuid : r \in players}

StoredIds(matches) == {r.match_id : r \in matches}

MatchIds == {"m1", "m2"}

\* placement = None
NoPlacement == 0

\* NULL in a column of data_collection_log
Null == 0 - 1

\* The body of match m when the API serves it: metadata.participants, and
\* the (puuid, placement) of the entries of info.participants.  "x" is a
\* participant that is never a known player; m2 lists p2 twice and its entry
\* for p1 is missing.
PayloadOf(m) ==
    IF m = "m1"
    THEN [metadata |-> <<"p1", "x", "p2">>,
          info |-> <<[puuid |-> "x", placement |-> 1],
                     [puuid |-> "p1", placement |-> 3],
                     [puuid |-> "p2", placement |-> 6]>>]
    ELSE [metadata |-> <<"p2", "p1", "p2">>,
          info |-> <<[puuid |-> "x", placement |-> 2],
                     [puuid |-> "p2", placement |-> 5]>>]

\* What the API answers: for each player the match ids that
\* get_match_ids_by_puuid returns (ok) or that it raises; for each match
\* what get_match_by_id ends with.  It is the same in every run.
Upstreams ==
    [ids : [Players -> {[ok |-> FALSE, match_ids |-> {}]}
                          \cup [ok : {TRUE}, match_ids : SUBSET MatchIds]],
     body : [MatchIds -> {"payload", "DataNotFoundError", "RiotAPIError"}]]

\* limit_players: None (0 behaves the same: `if limit:`) or a number
Limits == {0, 1}

\* stats = {...} at the top of fetch_and_save_matches
NewStats ==
    [players_processed |-> 0, match_ids_fetched |-> 0, unique_matches |-> 0,
     matches_saved |-> 0, matches_skipped |-> 0, api_calls |-> 0, errors |-> 0]

\* the locals of an invocation; batch and errors_before are history: the new
\* match ids handed to fetch_and_store_matches, and stats['errors'] at that time
NewRun ==
    [log_id |-> 0, players |-> <<>>, all_match_ids |-> {}, new_match_ids |-> {},
     saved_count |-> 0, error_message |-> "none", batch |-> {}, errors_before |-> 0]

NoPrev == [limit |-> 0, stats |-> NewStats, faults |-> 0, at |-> "idle"]

\* SELECT puuid ... FROM raw_players ORDER BY league_points DESC [LIMIT limit];
\* rows of equal league_points come in an order the store chooses
RECURSIVE Ranked(_)
Ranked(known) ==
    IF known = {} THEN <<>>
    ELSE LET top == CHOOSE r \in known : \A q \in known : q.league_points <= r.league_points
         IN  <<top.puuid>> \o Ranked(known \ {top})

AllPlayersNoLimit(known, limit) == Ranked(known)

AllPlayers(known, limit) ==
    IF limit = 0 THEN Ranked(known)
    ELSE SubSeq(Ranked(known), 1, Min(limit, Len(Ranked(known))))

\* SELECT match_id FROM raw_matches WHERE match_id IN (...)
ExistingIdsNone(matches, match_ids) == {}

ExistingIds(matches, match_ids) == {r.match_id : r \in {q \in matches : q.match_id \in match_ids}}

\* match_ids - existing_ids
FilterNewKeepAll(match_ids, existing) == match_ids

FilterNew(match_ids, existing) == match_ids \ existing

\* INSERT INTO raw_matches ... ON CONFLICT (match_id) DO NOTHING
InsertMatchOverwrite(matches, m, t) ==
    {q \in matches : q.match_id # m} \cup {[match_id |-> m, fetched_at |-> t]}

InsertMatchAlways(matches, m, t) == matches \cup {[match_id |-> m, fetched_at |-> t]}

InsertMatch(matches, m, t) ==
    IF \E q \in matches : q.match_id = m
    THEN matches
    ELSE matches \cup {[match_id |-> m, fetched_at |-> t]}

\* the placement of the first entry of info.participants with this puuid
RECURSIVE Placement(_, _)
PlacementLast(info, puuid) ==
    IF info = <<>> THEN NoPlacement
    ELSE IF info[Len(info)].puuid = puuid THEN info[Len(info)].placement
    ELSE NoPlacement

Placement(info, puuid) ==
    IF info = <<>> THEN NoPlacement
    ELSE IF Head(info).puuid = puuid THEN Head(info).placement
    ELSE Placement(Tail(info), puuid)

\* INSERT INTO player_match_history ... ON CONFLICT (puuid, match_id) DO NOTHING
InsertHistoryAlways(history, r) == history \cup {r}

InsertHistory(history, r) ==
    IF \E q \in history : q.puuid = r.puuid /\ q.match_id = r.match_id
    THEN history
    ELSE history \cup {r}

\* SELECT 1 FROM raw_players WHERE puuid = :puuid
IsKnownAlways(known, puuid) == TRUE

IsKnown(known, puuid) == \E r \in known : r.puuid = puuid

\* the loop over metadata.participants; t is datetime.now() of the next insert
RECURSIVE InsertParticipants(_, _, _, _, _, _)
InsertParticipants(history, known, m, participants, info, t) ==
    IF participants = <<>> THEN history
    ELSE IF IsKnown(known, Head(participants))
         THEN InsertParticipants(
                 InsertHistory(history, [puuid |-> Head(participants), match_id |-> m,
                                         placement |-> Placement(info, Head(participants)),
                                         fetched_at |-> t]),
                 known, m, Tail(participants), info, t + 1)
         ELSE InsertParticipants(history, known, m, Tail(participants), info, t)

\* the insert statements that the transaction of a match executes: one for the
\* match and one for each listed participant that is a known player
RECURSIVE Statements(_, _)
Statements(known, participants) ==
    IF participants = <<>> THEN 1
    ELSE (IF IsKnown(known, Head(participants)) THEN 1 ELSE 0)
         + Statements(known, Tail(participants))

\* the statements of that transaction, the lookups of the participants
\* included
RECURSIVE Steps(_, _)
Steps(known, participants) ==
    IF participants = <<>> THEN 1
    ELSE (IF IsKnown(known, Head(participants)) THEN 2 ELSE 1)
         + Steps(known, Tail(participants))

\* the loop over metadata.participants when only its first n statements
\* (lookups and inserts) are executed
RECURSIVE InsertParticipantsUpTo(_, _, _, _, _, _, _)
InsertParticipantsUpTo(history, known, m, participants, info, t, n) ==
    IF participants = <<>> \/ n <= 0 THEN history
    ELSE IF IsKnown(known, Head(participants))
         THEN IF n = 1 THEN history
              ELSE InsertParticipantsUpTo(
                      InsertHistory(history, [puuid |-> Head(participants), match_id |-> m,
                                              placement |-> Placement(info, Head(participants)),
                                              fetched_at |-> t]),
                      known, m, Tail(participants), info, t + 1, n - 2)
         ELSE InsertParticipantsUpTo(history, known, m, Tail(participants), info, t, n - 1)

\* `with engine.begin() as conn:` left by an exception: the transaction is
\* rolled back
RollbackNone(before, working) == working

Rollback(before, working) == before

\* the tables after the transaction of match m in which statement number
\* fail raises (0: none does)
SaveMatch(matches, history, known, m, t, fail) ==
    IF fail = 0
    THEN [matches |-> InsertMatch(matches, m, t),
          history |-> InsertParticipants(history, known, m, PayloadOf(m).metadata,
                                         PayloadOf(m).info, t + 1)]
    ELSE Rollback([matches |-> matches, history |-> history],
                  [matches |-> IF fail = 1 THEN matches ELSE InsertMatch(matches, m, t),
                   history |-> InsertParticipantsUpTo(history, known, m, PayloadOf(m).metadata,
                                                      PayloadOf(m).info, t + 1, fail - 2)])

\* requests.Session() of a new client, __enter__, and close() of __exit__
NoSession == [state |-> "none", closes |-> 0]

Enter == [state |-> "open", closes |-> 0]

ExitLeft(s) == s

Exit(s) == [state |-> "closed", closes |-> s.closes + 1]

\* no request made yet, no match failed yet
NoCalls ==
    [ids |-> [p \in Players |-> 0], body |-> [m \in MatchIds |-> 0], failed |-> {}]

\* len(all_match_ids) - len(new_match_ids)
SkippedNone(all, new) == 0

Skipped(all, new) == Cardinality(all) - Cardinality(new)

\* all_match_ids.update(match_ids)
UpdateReplace(all, match_ids) == match_ids

Update(all, match_ids) == all \cup match_ids

\* a state in which no match collection runs and the store is empty
NoMatches ==
    /\ raw_players = {}
    /\ raw_matches = {}
    /\ player_match_history = {}
    /\ data_collection_log = <<>>
    /\ upstream = [ids |-> [p \in Players |-> [ok |-> TRUE, match_ids |-> {}]],
                   body |-> [m \in MatchIds |-> "payload"]]
    /\ at = "idle"
    /\ limit_players = 0
    /\ stats = NewStats
    /\ run = NewRun
    /\ runs = 0
    /\ prev = NoPrev
    /\ faults = 0
    /\ body_requests = 0
    /\ datetime_now = 1
    /\ session = NoSession
    /\ calls = NoCalls

\* matches_per_player: int = 20, count: int = 20
DefaultCount == 20

\* no request built yet
NoUrl == [path |-> "none", puuid |-> "none", start |-> 0, count |-> 0]

NoEndpoint ==
    /\ matches_per_player = DefaultCount
    /\ url = NoUrl

\* stats = {...} at the top of fetch_and_save_leaderboard
NewLbStats ==
    [players_fetched |-> 0, players_inserted |-> 0, players_updated |-> 0,
     api_calls |-> 0, errors |-> 0]

\* the locals of a leaderboard invocation; answers, before and failed_at are
\* history: what each league endpoint answered, raw_players when
\* save_players_to_db was called, and the number of the upsert that raised
\* in it (0: none)
NewLb ==
    [at |-> "idle", log_id |-> 0, stats |-> NewLbStats, tiers |-> <<>>,
     all_players |-> <<>>, error_message |-> "none", answers |-> <<>>, before |-> {},
     failed_at |-> 0]

NoLeaderboard == lb = NewLb

\* processes that run fetch_and_save_matches at the same time
Runners == 1..NumRunners

\* the locals of such an invocation before its loop over players; requested
\* and inserted are history: the body requests per match, and the matches
\* whose row this invocation's insert created
NewRacer ==
    [at |-> "list", all_match_ids |-> {}, new_match_ids |-> {}, saved_count |-> 0,
     matches_saved |-> 0, matches_skipped |-> 0, errors |-> 0,
     requested |-> [m \in MatchIds |-> 0], inserted |-> {}]

NoRace == racer = [r \in Runners |-> NewRacer]

\* max_errors: int = 10
DefaultMaxErrors == 10

\* the locals of get_matches_bulk; i counts the ids the loop has processed and
\* answers is history: what get_match_by_id ended with for each of them
NewBulk ==
    [at |-> "idle", match_ids |-> <<>>, max_errors |-> DefaultMaxErrors, i |-> 0,
     matches |-> <<>>, error_count |-> 0, answers |-> <<>>]

NoBulk == bulk = NewBulk

NoOthers == NoEndpoint /\ NoLeaderboard /\ NoRace /\ NoBulk

\* a state in which no collection runs and the store is empty
NoPipeline == NoMatches /\ NoOthers

\* no invocation of either pipeline is under way
NotCollecting ==
    /\ at \in {"idle", "returned", "raised"}
    /\ lb.at \in {"idle", "returned", "raised", "fetched"}

\* a statement on the store fails (f) or not; at most MaxFaults fail in one
\* invocation
StoreAnswers(f, before) ==
    /\ f => before < MaxFaults
    /\ faults' = before + (IF f THEN 1 ELSE 0)

\* UPDATE data_collection_log SET status = ..., players_processed = ...,
\* matches_fetched = ..., api_calls_made = ..., error_message = ... WHERE id = log_id
CompletedLogAsStarted(log, log_id, status, st, message) == log

CompletedLogIdsFetched(log, log_id, status, st, message) ==
    [log EXCEPT ![log_id] =
        [@ EXCEPT !.status = status,
                  !.players_processed = st.players_processed,
                  !.matches_fetched = st.match_ids_fetched,
                  !.api_calls_made = st.api_calls,
                  !.error_message = message]]

CompletedLog(log, log_id, status, st, message) ==
    [log EXCEPT ![log_id] =
        [@ EXCEPT !.status = status,
                  !.players_processed = st.players_processed,
                  !.matches_fetched = st.matches_saved,
                  !.api_calls_made = st.api_calls,
                  !.error_message = message]]

\* fetch_and_save_matches(limit_players=limit) is called: stats = {...} and
\* start_collection_log(), which is outside the try block
StartCollectionLog(limit) ==
    /\ NotCollecting
    /\ runs < MaxRuns
    /\ runs' = runs + 1
    /\ prev' = [limit |-> limit_players, stats |-> stats, faults |-> faults, at |-> at]
    /\ limit_players' = limit
    /\ stats' = NewStats
    /\ body_requests' = 0
    /\ session' = NoSession
    /\ calls' = NoCalls
    /\ \E f \in BOOLEAN :
        /\ StoreAnswers(f, 0)
        /\ ev' = Event("start_collection_log", Caller, 0, ~f, 0)
        /\ IF f
           THEN /\ at' = "raised"
                /\ run' = NewRun
                /\ UNCHANGED data_collection_log
           ELSE /\ at' = "get_all_players"
                /\ run' = [NewRun EXCEPT !.log_id = Len(data_collection_log) + 1]
                /\ data_collection_log' =
                      Append(data_collection_log,
                             [collection_type |-> "matches", status |-> "started",
                              players_processed |-> Null, matches_fetched |-> Null,
                              api_calls_made |-> Null, error_message |-> "NULL"])
    /\ UNCHANGED <<raw_players, raw_matches, player_match_history, upstream, datetime_now>>

\* players = get_all_players(limit); if not players: return stats; otherwise
\* with RiotAPIClient(...) as client
GetAllPlayers ==
    /\ at = "get_all_players"
    /\ \E f \in BOOLEAN :
        /\ StoreAnswers(f, faults)
        /\ ev' = Event("get_all_players", Caller, 0, ~f, 0)
        /\ IF f
           THEN /\ at' = "except"
                /\ run' = [run EXCEPT !.error_message = "get_all_players"]
                /\ UNCHANGED session
           ELSE /\ run' = [run EXCEPT !.players = AllPlayers(raw_players, limit_players)]
                /\ at' = IF AllPlayers(raw_players, limit_players) = <<>>
                         THEN "returned"
                         ELSE "match_ids"
                /\ session' = IF AllPlayers(raw_players, limit_players) = <<>>
                              THEN session
                              ELSE Enter
    /\ UNCHANGED <<store, upstream, limit_players, stats, runs, prev, body_requests, datetime_now, calls>>

\* one turn of the loop over players: client.get_match_ids_by_puuid(puuid)
GetMatchIds ==
    /\ at = "match_ids"
    /\ LET answer == upstream.ids[Head(run.players)]
       IN  /\ ev' = Event("get_match_ids_by_puuid", Caller, 0, answer.ok, 0)
           /\ calls' = [calls EXCEPT !.ids[Head(run.players)] = @ + 1]
           /\ IF answer.ok
              THEN /\ run' = [run EXCEPT !.players = Tail(@),
                                         !.all_match_ids = Update(@, answer.match_ids)]
                   /\ stats' = [stats EXCEPT
                                   !.match_ids_fetched = @ + Cardinality(answer.match_ids),
                                   !.api_calls = @ + 1,
                                   !.players_processed = @ + 1]
              ELSE /\ run' = [run EXCEPT !.players = Tail(@)]
                   /\ stats' = [stats EXCEPT !.errors = @ + 1]
    /\ at' = IF Tail(run.players) = <<>> THEN "filter" ELSE "match_ids"
    /\ UNCHANGED <<store, upstream, limit_players, runs, prev, faults, body_requests,
                   datetime_now, session>>

\* stats['unique_matches'] = len(all_match_ids); filter_new_matches, which
\* asks the store only for a set that is not empty; stats['matches_skipped'];
\* the with block is left when filter_new_matches raises and when no match
\* is new
FilterNewMatches ==
    /\ at = "filter"
    /\ \E f \in BOOLEAN :
        /\ f => run.all_match_ids # {}
        /\ StoreAnswers(f, faults)
        /\ ev' = Event("filter_new_matches", Caller, 0, ~f, 0)
        /\ LET new == FilterNew(run.all_match_ids,
                                ExistingIds(raw_matches, run.all_match_ids))
           IN  IF f
               THEN /\ at' = "except"
                    /\ session' = Exit(session)
                    /\ run' = [run EXCEPT !.error_message = "filter_new_matches"]
                    /\ stats' = [stats EXCEPT !.unique_matches = Cardinality(run.all_match_ids)]
               ELSE /\ at' = IF new = {} THEN "complete" ELSE "store"
                    /\ session' = IF new = {} THEN Exit(session) ELSE session
                    /\ run' = [run EXCEPT !.new_match_ids = new, !.batch = new,
                                          !.errors_before = stats.errors]
                    /\ stats' = [stats EXCEPT
                                    !.unique_matches = Cardinality(run.all_match_ids),
                                    !.matches_skipped = Skipped(run.all_match_ids, new)]
    /\ UNCHANGED <<store, upstream, limit_players, runs, prev, body_requests, datetime_now, calls>>

\* saved_count += 1 at the end of the try block
CountSavedAlways(count, saved) == count + 1

CountSaved(count, saved) == count + (IF saved THEN 1 ELSE 0)

\* one turn of the loop of fetch_and_store_matches: client.get_match_by_id,
\* then the match and its participants in one transaction; any exception is
\* caught and counted.  After the last turn stats['matches_saved'] = saved
\* and the with block is left.  The event records which statement of the
\* transaction raised (0: none).
FetchAndStoreMatch ==
    /\ at = "store"
    /\ \E m \in run.new_match_ids :
       \E fail \in 0..Steps(raw_players, PayloadOf(m).metadata) :
        LET fetched == upstream.body[m] = "payload"
            f == fail # 0
            saved == fetched /\ ~f
            left == run.new_match_ids \ {m}
            count == CountSaved(run.saved_count, saved)
            tables == SaveMatch(raw_matches, player_match_history, raw_players, m,
                                datetime_now, fail)
        IN  /\ f => fetched
            /\ StoreAnswers(f, faults)
            /\ ev' = Event("get_match_by_id", Caller, 0, saved, fail)
            /\ body_requests' = body_requests + 1
            /\ calls' = [calls EXCEPT !.body[m] = @ + 1,
                                      !.failed = IF saved THEN @ ELSE @ \cup {m}]
            /\ run' = [run EXCEPT !.new_match_ids = left, !.saved_count = count]
            /\ stats' = [stats EXCEPT
                            !.api_calls = @ + (IF fetched THEN 1 ELSE 0),
                            !.errors = @ + (IF saved THEN 0 ELSE 1),
                            !.matches_saved = IF left = {} THEN count ELSE @]
            /\ raw_matches' = IF fetched THEN tables.matches ELSE raw_matches
            /\ player_match_history' = IF fetched THEN tables.history ELSE player_match_history
            /\ datetime_now' = IF saved THEN datetime_now + Statements(raw_players, PayloadOf(m).metadata)
                      ELSE datetime_now
            /\ at' = IF left = {} THEN "complete" ELSE "store"
            /\ session' = IF left = {} THEN Exit(session) ELSE session
    /\ UNCHANGED <<raw_players, data_collection_log, upstream, limit_players, runs, prev>>

\* complete_collection_log(log_id, 'completed', stats), then return stats
CompleteCollectionLog ==
    /\ at = "complete"
    /\ \E f \in BOOLEAN :
        /\ StoreAnswers(f, faults)
        /\ ev' = Event("complete_collection_log", Caller, 0, ~f, 0)
        /\ IF f
           THEN /\ at' = "except"
                /\ run' = [run EXCEPT !.error_message = "complete_collection_log"]
                /\ UNCHANGED data_collection_log
           ELSE /\ at' = "returned"
                /\ data_collection_log' =
                      CompletedLog(data_collection_log, run.log_id, "completed", stats, "NULL")
                /\ UNCHANGED run
    /\ UNCHANGED <<raw_players, raw_matches, player_match_history, upstream,
                   limit_players, stats, runs, prev, body_requests, datetime_now, session, calls>>

\* except Exception as e: stats['errors'] += 1;
\* complete_collection_log(log_id, 'failed', stats, error_message=str(e)),
\* then return stats; an exception of the handler itself goes to the caller
HandleException ==
    /\ at = "except"
    /\ stats' = [stats EXCEPT !.errors = @ + 1]
    /\ \E f \in BOOLEAN :
        /\ StoreAnswers(f, faults)
        /\ ev' = Event("except", Caller, 0, ~f, 0)
        /\ IF f
           THEN /\ at' = "raised"
                /\ UNCHANGED data_collection_log
           ELSE /\ at' = "returned"
                /\ data_collection_log' =
                      CompletedLog(data_collection_log, run.log_id, "failed", stats', run.error_message)
    /\ UNCHANGED <<raw_players, raw_matches, player_match_history, upstream,
                   limit_players, run, runs, prev, body_requests, datetime_now, session, calls>>

\* ------------------------------------------------------------------ endpoints
\* (src/src/riot_api/endpoints.py) the URL of the match-ID request.

\* the upstream per-call maximum
UpstreamMaxCount == 20

\* the counts and start indexes that callers pass
Counts == (0 - 1)..MaxCount

Starts == 0..MaxStart

\* count = min(count, 20)
CountParamUncapped(count) == count

CountParam(count) == Min(count, UpstreamMaxCount)

\* RiotAPIEndpoints.get_match_ids_by_puuid(puuid, count, start)
MatchIdsUrl(puuid, count, start) ==
    [path |-> "matches/by-puuid/ids", puuid |-> puuid, start |-> start,
     count |-> CountParam(count)]

\* fetch_and_save_matches(matches_per_player=c) is called
PassCount(c) ==
    /\ matches_per_player' = c
    /\ ev' = Event("fetch_and_save_matches", Caller, 0, TRUE, c)
    /\ UNCHANGED url

\* client.get_match_ids_by_puuid(puuid, count=matches_per_player) in the loop
\* over players: start keeps its default
GetMatchIdsOfPlayer(puuid) ==
    /\ url' = MatchIdsUrl(puuid, matches_per_player, 0)
    /\ ev' = Event("get_match_ids_by_puuid", Caller, 0, TRUE, matches_per_player)
    /\ UNCHANGED matches_per_player

\* client.get_match_ids_by_puuid(puuid, count, start) called by anyone else
GetMatchIdsByPuuid(puuid, count, start) ==
    /\ url' = MatchIdsUrl(puuid, count, start)
    /\ ev' = Event("get_match_ids_by_puuid", Caller, 0, TRUE, count)
    /\ UNCHANGED matches_per_player

\* ------------------------------------------------------------------ leaderboard
\* (src/src/data_collection/fetch_leaderboard.py, and the roster methods of
\* src/src/riot_api/client.py) fetch_and_save_leaderboard against the store
\* and the API.

\* the tier loops of get_all_masters_plus_players and get_grandmaster_plus_players
MastersPlus == <<"MASTER", "GRANDMASTER", "CHALLENGER">>

GrandmasterPlus == <<"GRANDMASTER", "CHALLENGER">>

\* player.get('tier', 'MASTER')
DefaultTier == "MASTER"

LeaguePoints == 1..MaxLeaguePoints

\* an entry as a league endpoint returns it: it has no tier
Entries == [puuid : Players, leaguePoints : LeaguePoints, tier : {"absent"}]

\* tier_data["entries"] of a league endpoint
EntryLists == UNION {[1..n -> Entries] : n \in 0..MaxEntries}

\* what a league request ends with: the entries, a RiotAPIError, or a body
\* that is not a JSON object, on which tier_data.get raises
LeagueAnswers ==
    [kind : {"entries"}, entries : EntryLists]
        \cup [kind : {"RiotAPIError", "AttributeError"}, entries : {<<>>}]

\* for entry in entries: entry['tier'] = tier_name
TagNone(entries, tier_name) == entries

Tag(entries, tier_name) ==
    [k \in DOMAIN entries |-> [entries[k] EXCEPT !.tier = tier_name]]

\* all_players.extend(entries)
ExtendFront(all_players, entries) == entries \o all_players

Extend(all_players, entries) == all_players \o entries

\* tier = player.get('tier', 'MASTER')
TierOf(player) == IF player.tier = "absent" THEN DefaultTier ELSE player.tier

\* INSERT INTO raw_players ... ON CONFLICT (puuid) DO UPDATE SET ... at time t
UpsertDoNothing(players, e, t) ==
    IF \E r \in players : r.puuid = e.puuid
    THEN players
    ELSE players \cup {PlayerRow(e.puuid, TierOf(e), e.leaguePoints, t, t)}

Upsert(players, e, t) ==
    IF \E r \in players : r.puuid = e.puuid
    THEN {r \in players : r.puuid # e.puuid}
            \cup {[r EXCEPT !.league_points = e.leaguePoints, !.tier = TierOf(e),
                            !.updated_at = t] :
                     r \in {q \in players : q.puuid = e.puuid}}
    ELSE players \cup {PlayerRow(e.puuid, TierOf(e), e.leaguePoints, t, t)}

\* RETURNING (xmax = 0) AS inserted
IsInsertAlways(players, e) == TRUE

IsInsert(players, e) == ~ \E r \in players : r.puuid = e.puuid

\* the loop of save_players_to_db over the list from its k-th element, inside
\* one transaction: the table, the two counts and the time afterwards
RECURSIVE SavePlayers(_, _, _, _)
SavePlayers(acc, list, k, t) ==
    IF k > Len(list) THEN acc
    ELSE SavePlayers(
            [players |-> Upsert(acc.players, list[k], t),
             inserted |-> acc.inserted + (IF IsInsert(acc.players, list[k]) THEN 1 ELSE 0),
             updated |-> acc.updated + (IF IsInsert(acc.players, list[k]) THEN 0 ELSE 1)],
            list, k + 1, t + 1)

\* UPDATE data_collection_log SET status = ..., players_processed = ...,
\* api_calls_made = ..., error_message = ... WHERE id = log_id
CompletedLeaderboardLog(log, log_id, status, st, message) ==
    [log EXCEPT ![log_id] =
        [@ EXCEPT !.status = status,
                  !.players_processed = st.players_fetched,
                  !.api_calls_made = st.api_calls,
                  !.error_message = message]]

\* fetch_and_save_leaderboard() is called: stats = {...} and
\* start_collection_log(), which is outside the try block
LbStartCollectionLog ==
    /\ NotCollecting
    /\ runs < MaxRuns
    /\ runs' = runs + 1
    /\ session' = NoSession
    /\ \E f \in BOOLEAN :
        /\ StoreAnswers(f, 0)
        /\ ev' = Event("start_collection_log", Caller, 0, ~f, 0)
        /\ IF f
           THEN /\ lb' = [NewLb EXCEPT !.at = "raised"]
                /\ UNCHANGED data_collection_log
           ELSE /\ lb' = [NewLb EXCEPT !.at = "enter",
                                       !.log_id = Len(data_collection_log) + 1]
                /\ data_collection_log' =
                      Append(data_collection_log,
                             [collection_type |-> "leaderboard", status |-> "started",
                              players_processed |-> Null, matches_fetched |-> Null,
                              api_calls_made |-> Null, error_message |-> "NULL"])
    /\ UNCHANGED <<raw_players, raw_matches, player_match_history, datetime_now>>

\* with RiotAPIClient(...) as client: client.get_grandmaster_plus_players()
LbEnter ==
    /\ lb.at = "enter"
    /\ lb' = [lb EXCEPT !.at = "tiers", !.tiers = GrandmasterPlus]
    /\ session' = Enter
    /\ ev' = Event("get_grandmaster_plus_players", Caller, 0, TRUE, 0)
    /\ UNCHANGED <<store, runs, faults, datetime_now>>

\* some caller that holds a client calls get_all_masters_plus_players()
GetAllMastersPlusPlayers ==
    /\ NotCollecting
    /\ lb.at \in {"idle", "fetched"}
    /\ lb' = [NewLb EXCEPT !.at = "tiers", !.tiers = MastersPlus]
    /\ session' = Enter
    /\ ev' = Event("get_all_masters_plus_players", Caller, 0, TRUE, 0)
    /\ UNCHANGED <<store, runs, faults, datetime_now>>

\* one turn of the loop over the tiers; after the last one the roster is
\* returned: the pipeline sets players_fetched and api_calls and leaves the
\* with block.  An exception that is not a RiotAPIError leaves the loop and,
\* in the pipeline, the with block.
FetchTier ==
    /\ lb.at = "tiers"
    /\ \E answer \in LeagueAnswers :
        LET tier_name == Head(lb.tiers)
            entries == Tag(answer.entries, tier_name)
            roster == IF answer.kind = "entries" THEN Extend(lb.all_players, entries)
                      ELSE lb.all_players
            done == Tail(lb.tiers) = <<>>
            piped == lb.log_id # 0
        IN  /\ ev' = Event("league", Caller, 0, answer.kind = "entries", 0)
            /\ IF answer.kind = "AttributeError"
               THEN /\ lb' = [lb EXCEPT !.at = IF piped THEN "except" ELSE "raised",
                                        !.error_message = "AttributeError",
                                        !.answers = Append(@, [tier |-> tier_name, answer |-> answer])]
                    /\ session' = IF piped THEN Exit(session) ELSE session
               ELSE /\ lb' = [lb EXCEPT
                                !.tiers = Tail(@),
                                !.all_players = roster,
                                !.answers = Append(@, [tier |-> tier_name, answer |-> answer]),
                                !.at = IF ~done THEN "tiers"
                                       ELSE IF ~piped THEN "fetched"
                                       ELSE IF roster = <<>> THEN "complete" ELSE "save",
                                !.stats = IF done /\ piped
                                          THEN [@ EXCEPT !.players_fetched = Len(roster),
                                                         !.api_calls = 2]
                                          ELSE @]
                    /\ session' = IF done /\ piped THEN Exit(session) ELSE session
    /\ UNCHANGED <<store, runs, faults, datetime_now>>

\* inserted, updated = save_players_to_db(all_players): one transaction, in
\* which the upsert number fail raises (0: none does) after those before it
\* were executed; the exception rolls the transaction back and reaches the
\* except block before stats is assigned
SavePlayersToDb ==
    /\ lb.at = "save"
    /\ \E fail \in 0..Len(lb.all_players) :
        LET f == fail # 0
            saved == SavePlayers([players |-> raw_players, inserted |-> 0, updated |-> 0],
                                 lb.all_players, 1, datetime_now)
            working == SavePlayers([players |-> raw_players, inserted |-> 0, updated |-> 0],
                                   SubSeq(lb.all_players, 1, fail - 1), 1, datetime_now)
        IN  /\ StoreAnswers(f, faults)
            /\ ev' = Event("save_players_to_db", Caller, 0, ~f, fail)
            /\ IF f
               THEN /\ lb' = [lb EXCEPT !.at = "except", !.error_message = "save_players_to_db",
                                        !.before = raw_players, !.failed_at = fail]
                    /\ raw_players' = Rollback(raw_players, working.players)
                    /\ UNCHANGED datetime_now
               ELSE /\ raw_players' = saved.players
                    /\ datetime_now' = datetime_now + Len(lb.all_players)
                    /\ lb' = [lb EXCEPT !.at = "complete", !.before = raw_players,
                                        !.stats = [@ EXCEPT !.players_inserted = saved.inserted,
                                                            !.players_updated = saved.updated]]
    /\ UNCHANGED <<raw_matches, player_match_history, data_collection_log, runs, session>>

\* complete_collection_log(log_id, 'completed', stats), then return stats
LbCompleteCollectionLog ==
    /\ lb.at = "complete"
    /\ \E f \in BOOLEAN :
        /\ StoreAnswers(f, faults)
        /\ ev' = Event("complete_collection_log", Caller, 0, ~f, 0)
        /\ IF f
           THEN /\ lb' = [lb EXCEPT !.at = "except", !.error_message = "complete_collection_log"]
                /\ UNCHANGED data_collection_log
           ELSE /\ lb' = [lb EXCEPT !.at = "returned"]
                /\ data_collection_log' =
                      CompletedLeaderboardLog(data_collection_log, lb.log_id, "completed",
                                              lb.stats, "NULL")
    /\ UNCHANGED <<raw_players, raw_matches, player_match_history, runs, datetime_now, session>>

\* except Exception as e: stats['errors'] = 1;
\* complete_collection_log(log_id, 'failed', stats, error_message=str(e)),
\* then return stats; an exception of the handler itself goes to the caller
LbHandleException ==
    /\ lb.at = "except"
    /\ \E f \in BOOLEAN :
        /\ StoreAnswers(f, faults)
        /\ ev' = Event("except", Caller, 0, ~f, 0)
        /\ IF f
           THEN /\ lb' = [lb EXCEPT !.at = "raised", !.stats = [@ EXCEPT !.errors = 1]]
                /\ UNCHANGED data_collection_log
           ELSE /\ lb' = [lb EXCEPT !.at = "returned", !.stats = [@ EXCEPT !.errors = 1]]
                /\ data_collection_log' =
                      CompletedLeaderboardLog(data_collection_log, lb.log_id, "failed",
                                              [lb.stats EXCEPT !.errors = 1], lb.error_message)
    /\ UNCHANGED <<raw_players, raw_matches, player_match_history, runs, datetime_now, session>>

\* ------------------------------------------------------------------ concurrent runs
\* fetch_and_save_matches run by several processes against one store.  Each
\* statement that reads the store and each transaction is one step; the steps
\* of the processes interleave.

\* the loop over players has collected ids (fetch_matches.py:56-83)
RaceCollect(r) ==
    /\ racer[r].at = "list"
    /\ \E ids \in SUBSET MatchIds :
          racer' = [racer EXCEPT ![r].at = "filter", ![r].all_match_ids = ids]
    /\ ev' = Event("get_match_ids_by_puuid", r, 0, TRUE, 0)
    /\ UNCHANGED <<raw_matches, player_match_history, datetime_now>>

\* new_match_ids = filter_new_matches(all_match_ids); matches_skipped
RaceFilter(r) ==
    /\ racer[r].at = "filter"
    /\ LET all == racer[r].all_match_ids
           new == FilterNew(all, ExistingIds(raw_matches, all))
       IN  racer' = [racer EXCEPT ![r].at = IF new = {} THEN "done" ELSE "store",
                                  ![r].new_match_ids = new,
                                  ![r].matches_skipped = Skipped(all, new)]
    /\ ev' = Event("filter_new_matches", r, 0, TRUE, 0)
    /\ UNCHANGED <<raw_matches, player_match_history, datetime_now>>

\* one turn of the loop of fetch_and_store_matches; after the last turn
\* stats['matches_saved'] = saved
RaceFetchAndStore(r) ==
    /\ racer[r].at = "store"
    /\ \E m \in racer[r].new_match_ids :
       \E fail \in 0..Steps(raw_players, PayloadOf(m).metadata) :
        LET fetched == upstream.body[m] = "payload"
            f == fail # 0
            saved == fetched /\ ~f
            left == racer[r].new_match_ids \ {m}
            tables == SaveMatch(raw_matches, player_match_history, raw_players, m,
                                datetime_now, fail)
        IN  /\ f => fetched
            /\ ev' = Event("get_match_by_id", r, 0, saved, fail)
            /\ racer' = [racer EXCEPT
                            ![r].new_match_ids = left,
                            ![r].saved_count = CountSaved(@, saved),
                            ![r].matches_saved =
                                IF left = {} THEN CountSaved(racer[r].saved_count, saved) ELSE @,
                            ![r].errors = @ + (IF saved THEN 0 ELSE 1),
                            ![r].requested[m] = @ + 1,
                            ![r].inserted = IF saved /\ m \notin StoredIds(raw_matches)
                                            THEN @ \cup {m} ELSE @,
                            ![r].at = IF left = {} THEN "done" ELSE "store"]
            /\ raw_matches' = IF fetched THEN tables.matches ELSE raw_matches
            /\ player_match_history' = IF fetched THEN tables.history ELSE player_match_history
            /\ datetime_now' = IF saved
                               THEN datetime_now + Statements(raw_players, PayloadOf(m).metadata)
                               ELSE datetime_now

\* ------------------------------------------------------------------ bulk fetch
\* RiotAPIClient.get_matches_bulk(match_ids, max_errors); one turn of its loop
\* is one step.

\* what get_match_by_id ends with: the payload, or one of the exceptions of
\* _make_request
BodyAnswers == {"payload", "DataNotFoundError", "RiotAPIError"}

\* the lists of ids and the limits the function is called with
BulkLists == UNION {[1..n -> MatchIds] : n \in 0..MaxBulk}

ErrorLimits == 0..MaxErrorLimit

\* if error_count >= max_errors: break
Stop(error_count, max_errors) == error_count >= max_errors

\* matches = [], error_count = 0; an empty list is returned at once
GetMatchesBulk(match_ids, max_errors) ==
    /\ bulk.at \in {"idle", "returned"}
    /\ bulk' = [NewBulk EXCEPT !.at = IF match_ids = <<>> THEN "returned" ELSE "loop",
                               !.match_ids = match_ids,
                               !.max_errors = max_errors]
    /\ ev' = Event("get_matches_bulk", Caller, 0, TRUE, 0)

\* one turn of the loop: get_match_by_id(match_id), the payload appended or
\* the error counted, then the test of error_count against max_errors
BulkFetch ==
    /\ bulk.at = "loop"
    /\ \E a \in BodyAnswers :
        LET i == bulk.i + 1
            count == bulk.error_count + (IF a = "payload" THEN 0 ELSE 1)
        IN  /\ bulk' = [bulk EXCEPT
                           !.i = i,
                           !.matches = IF a = "payload"
                                       THEN Append(@, PayloadOf(bulk.match_ids[i]))
                                       ELSE @,
                           !.error_count = count,
                           !.answers = Append(@, a),
                           !.at = IF Stop(count, bulk.max_errors) \/ i = Len(bulk.match_ids)
                                  THEN "returned"
                                  ELSE "loop"]
            /\ ev' = Event("get_match_by_id", Caller, 0, a = "payload", 0)

\* ------------------------------------------------------------------ Spec
\* Several threads using every operation of one limiter under a clock that
\* never steps back.

Init == (\E c \in Configs : Construct(c, TRUE, {}, FALSE)) /\ NoClient /\ NoPipeline

Next ==
    \/ \E t \in Threads, c \in Costs, to \in Timeouts : Acquire(t, c, to) /\ UNCHANGED rest
    \/ \E t \in Threads : Attempt(t) /\ UNCHANGED rest
    \/ \E t \in Threads : CheckTimeout(t) /\ UNCHANGED rest
    \/ \E t \in Threads : ComputeWait(t) /\ UNCHANGED rest
    \/ \E t \in Threads : Wake(t) /\ UNCHANGED rest
    \/ \E t \in Threads, c \in Costs : TryAcquire(t, c) /\ UNCHANGED rest
    \/ \E t \in Threads, c \in Costs : GetWaitTime(t, c) /\ UNCHANGED rest
    \/ \E t \in Threads : Reset(t) /\ UNCHANGED rest
    \/ Tick(MaxClock) /\ UNCHANGED rest

Spec == Init /\ [][Next]_vars

\* ------------------------------------------------------------------ SpecSeq
\* One caller (the pipeline's single sequential worker) using every operation,
\* over a longer horizon, with the whole history recorded.

InitSeq == (\E c \in Configs : Construct(c, TRUE, 0..MaxClockSeq, TRUE)) /\ NoClient /\ NoPipeline

NextSeq ==
    \/ \E c \in Costs, to \in Timeouts : Acquire(Caller, c, to) /\ UNCHANGED rest
    \/ Attempt(Caller) /\ UNCHANGED rest
    \/ CheckTimeout(Caller) /\ UNCHANGED rest
    \/ ComputeWait(Caller) /\ UNCHANGED rest
    \/ Wake(Caller) /\ UNCHANGED rest
    \/ \E c \in Costs : TryAcquire(Caller, c) /\ UNCHANGED rest
    \/ \E c \in Costs : GetWaitTime(Caller, c) /\ UNCHANGED rest
    \/ Reset(Caller) /\ UNCHANGED rest
    \/ Tick(MaxClockSeq) /\ UNCHANGED rest

SpecSeq == InitSeq /\ [][NextSeq]_vars

\* ------------------------------------------------------------------ SpecWall
\* The same caller under the wall clock: time.time() is not monotonic and may
\* step back (a clock adjustment).  No history is recorded.

InitWall == (\E c \in Configs : Construct(c, FALSE, {}, FALSE)) /\ NoClient /\ NoPipeline

ClockBack ==
    /\ clock > 0
    /\ clock' = clock - 1
    /\ ev' = Event("clock_back", 0, 0, TRUE, 0)
    /\ UNCHANGED <<config, bucket, frames, hist>>

NextWall ==
    \/ NextSeq
    \/ ClockBack /\ UNCHANGED rest

SpecWall == InitWall /\ [][NextWall]_vars

\* ------------------------------------------------------------------ SpecBurst
\* The default limiter (20 per 1 s, 100 per 120 s), one caller issuing
\* try_acquire(1) at any times.

InitBurst == Construct(DefaultConfig, TRUE, {}, TRUE) /\ NoClient /\ NoPipeline

NextBurst ==
    \/ TryAcquire(Caller, 1) /\ UNCHANGED rest
    \/ Tick(MaxClockBurst) /\ UNCHANGED rest

SpecBurst == InitBurst /\ [][NextBurst]_vars

\* ------------------------------------------------------------------ LiveSpec
\* Callers that block in acquire(tokens, timeout=None) for as long as it takes,
\* under a clock that advances for ever.  Only the differences between the
\* timestamps matter, so once the clock has reached the longer window the
\* passing of a tick moves every timestamp one tick into the past instead, not
\* below 0: a bucket last refilled that long ago is full after its next refill
\* in either case, and a wake time that far back has passed in either case.
\* No history is recorded.

LiveConfigs ==
    { [sl |-> 2, sw |-> 1, ll |-> 2, lw |-> 4],
      [sl |-> 1, sw |-> 1, ll |-> 2, lw |-> 3] }

InitLive == (\E c \in LiveConfigs : Construct(c, FALSE, {}, FALSE)) /\ NoClient /\ NoPipeline

TickLive ==
    /\ ev' = Event("tick", 0, 0, TRUE, 0)
    /\ IF clock < Max(short_window, long_window)
       THEN /\ clock' = clock + 1
            /\ UNCHANGED <<bucket, wake>>
       ELSE /\ clock' = clock
            /\ short_last_refill' = Max(0, short_last_refill - 1)
            /\ long_last_refill' = Max(0, long_last_refill - 1)
            /\ wake' = [t \in Threads |-> Max(0, wake[t] - 1)]
            /\ UNCHANGED <<short_tokens, long_tokens>>
    /\ UNCHANGED <<config, pc, tokens, deadline, hist>>

\* What a thread inside acquire does next.
Proceed(t) ==
    \/ Attempt(t)
    \/ CheckTimeout(t)
    \/ ComputeWait(t)
    \/ Wake(t)

\* Several callers, each calling acquire again and again.
NextLive ==
    \/ \E t \in Threads, c \in Costs : Acquire(t, c, NoTimeout) /\ UNCHANGED rest
    \/ \E t \in Threads : Proceed(t) /\ UNCHANGED rest
    \/ TickLive /\ UNCHANGED rest

\* The clock keeps advancing and every thread inside acquire keeps being
\* scheduled.
LiveSpec ==
    /\ InitLive
    /\ [][NextLive]_vars
    /\ WF_vars(TickLive /\ UNCHANGED rest)
    /\ \A t \in Threads : WF_vars(Proceed(t) /\ UNCHANGED rest)

\* ------------------------------------------------------------------ SpecClient
\* One client (its limiter is the default one) driven by one sequential
\* caller that makes up to MaxRequests logical requests one after another; the
\* upstream answers every physical attempt as it likes.  The default limiter
\* starts with 20 tokens in its smaller bucket, so while MaxRequests is at most
\* 20 every acquire() is granted at its first attempt and the sleep loop of
\* acquire is never entered.

InitClient ==
    /\ Construct(DefaultConfig, TRUE, {}, FALSE)
    /\ \E m \in 0..MaxRetries : NewClient(m)
    /\ NoPipeline

NextClient ==
    \/ MakeRequest /\ UNCHANGED pipeline
    \/ Attempt(Caller) /\ UNCHANGED rest
    \/ SessionGet /\ UNCHANGED pipeline

SpecClient == InitClient /\ [][NextClient]_vars

\* ------------------------------------------------------------------ SpecMatches
\* Up to MaxRuns invocations of fetch_and_save_matches, one after another and
\* with no other writer, against a store that holds any roster and no match
\* yet, and an API whose answers stay the same.

outside == <<config, bucket, clock, frames, hist, client, others>>

InitMatches ==
    /\ Construct(DefaultConfig, FALSE, {}, FALSE)
    /\ NoClient
    /\ \E known \in SUBSET Players : raw_players = RosterOf(known)
    /\ raw_matches = {}
    /\ player_match_history = {}
    /\ data_collection_log = <<>>
    /\ upstream \in Upstreams
    /\ at = "idle"
    /\ limit_players = 0
    /\ stats = NewStats
    /\ run = NewRun
    /\ runs = 0
    /\ prev = NoPrev
    /\ faults = 0
    /\ body_requests = 0
    /\ datetime_now = 1
    /\ session = NoSession
    /\ calls = NoCalls
    /\ NoOthers

NextMatches ==
    \/ \E limit \in Limits : StartCollectionLog(limit) /\ UNCHANGED outside
    \/ GetAllPlayers /\ UNCHANGED outside
    \/ GetMatchIds /\ UNCHANGED outside
    \/ FilterNewMatches /\ UNCHANGED outside
    \/ FetchAndStoreMatch /\ UNCHANGED outside
    \/ CompleteCollectionLog /\ UNCHANGED outside
    \/ HandleException /\ UNCHANGED outside

SpecMatches == InitMatches /\ [][NextMatches]_vars

\* ------------------------------------------------------------------ SpecEndpoints
\* Match-ID requests built for any count and start index, by the pipeline with
\* the count it was called with and by other callers of the client.

not_endpoint == <<config, bucket, clock, frames, hist, client, store, collection, lb, racer, bulk>>

InitEndpoints ==
    /\ Construct(DefaultConfig, FALSE, {}, FALSE)
    /\ NoClient
    /\ NoPipeline

NextEndpoints ==
    \/ \E c \in Counts : PassCount(c) /\ UNCHANGED not_endpoint
    \/ \E p \in Players : GetMatchIdsOfPlayer(p) /\ UNCHANGED not_endpoint
    \/ \E p \in Players, c \in Counts, s \in Starts :
          GetMatchIdsByPuuid(p, c, s) /\ UNCHANGED not_endpoint

SpecEndpoints == InitEndpoints /\ [][NextEndpoints]_vars

\* ------------------------------------------------------------------ SpecCollect
\* Up to MaxRuns invocations, one after another, of fetch_and_save_leaderboard
\* and fetch_and_save_matches, and roster fetches of other callers, against a
\* store that is empty at first and an API whose league answers vary from one
\* request to the next.

\* the answers of the match endpoints in this specification: a player's list
\* request fails or returns both matches, the body of m1 is served or fails
CollectUpstreams ==
    {u \in Upstreams :
        /\ \A p \in Players : u.ids[p].ok => u.ids[p].match_ids = MatchIds
        /\ u.body["m1"] \in {"payload", "RiotAPIError"}
        /\ u.body["m2"] = "payload"}

not_leaderboard ==
    <<config, bucket, clock, frames, hist, client, upstream, at, limit_players, stats,
      run, prev, body_requests, calls, endpoint, racer, bulk>>

InitCollect ==
    /\ Construct(DefaultConfig, FALSE, {}, FALSE)
    /\ NoClient
    /\ raw_players = {}
    /\ raw_matches = {}
    /\ player_match_history = {}
    /\ data_collection_log = <<>>
    /\ upstream \in CollectUpstreams
    /\ at = "idle"
    /\ limit_players = 0
    /\ stats = NewStats
    /\ run = NewRun
    /\ runs = 0
    /\ prev = NoPrev
    /\ faults = 0
    /\ body_requests = 0
    /\ datetime_now = 1
    /\ session = NoSession
    /\ calls = NoCalls
    /\ NoOthers

NextCollect ==
    \/ LbStartCollectionLog /\ UNCHANGED not_leaderboard
    \/ LbEnter /\ UNCHANGED not_leaderboard
    \/ GetAllMastersPlusPlayers /\ UNCHANGED not_leaderboard
    \/ FetchTier /\ UNCHANGED not_leaderboard
    \/ SavePlayersToDb /\ UNCHANGED not_leaderboard
    \/ LbCompleteCollectionLog /\ UNCHANGED not_leaderboard
    \/ LbHandleException /\ UNCHANGED not_leaderboard
    \/ \E limit \in Limits : StartCollectionLog(limit) /\ UNCHANGED outside
    \/ GetAllPlayers /\ UNCHANGED outside
    \/ GetMatchIds /\ UNCHANGED outside
    \/ FilterNewMatches /\ UNCHANGED outside
    \/ FetchAndStoreMatch /\ UNCHANGED outside
    \/ CompleteCollectionLog /\ UNCHANGED outside
    \/ HandleException /\ UNCHANGED outside

SpecCollect == InitCollect /\ [][NextCollect]_vars

\* ------------------------------------------------------------------ SpecRace
\* NumRunners processes run fetch_and_save_matches at the same time against a
\* store that holds any roster and no match yet.

not_race ==
    <<config, bucket, clock, frames, hist, client, raw_players, data_collection_log,
      upstream, at, limit_players, stats, run, runs, prev, faults, body_requests,
      session, calls, endpoint, lb, bulk>>

InitRace ==
    /\ Construct(DefaultConfig, FALSE, {}, FALSE)
    /\ NoClient
    /\ \E known \in SUBSET Players : raw_players = RosterOf(known)
    /\ raw_matches = {}
    /\ player_match_history = {}
    /\ data_collection_log = <<>>
    /\ \E body \in [MatchIds -> {"payload", "DataNotFoundError", "RiotAPIError"}] :
          upstream = [ids |-> [p \in Players |-> [ok |-> TRUE, match_ids |-> MatchIds]],
                      body |-> body]
    /\ at = "idle"
    /\ limit_players = 0
    /\ stats = NewStats
    /\ run = NewRun
    /\ runs = 0
    /\ prev = NoPrev
    /\ faults = 0
    /\ body_requests = 0
    /\ datetime_now = 1
    /\ session = NoSession
    /\ calls = NoCalls
    /\ NoOthers

NextRace ==
    \/ \E r \in Runners : RaceCollect(r) /\ UNCHANGED not_race
    \/ \E r \in Runners : RaceFilter(r) /\ UNCHANGED not_race
    \/ \E r \in Runners : RaceFetchAndStore(r) /\ UNCHANGED not_race

SpecRace == InitRace /\ [][NextRace]_vars

\* ------------------------------------------------------------------ SpecBulk
\* get_matches_bulk called again and again with any list of up to MaxBulk ids
\* and any limit of errors from 0 to MaxErrorLimit, each request answered by a
\* payload or an error.

not_bulk == <<config, bucket, clock, frames, hist, client, store, collection, endpoint, lb, racer>>

InitBulk ==
    /\ Construct(DefaultConfig, FALSE, {}, FALSE)
    /\ NoClient
    /\ NoPipeline

NextBulk ==
    \/ \E match_ids \in BulkLists, max_errors \in ErrorLimits :
          GetMatchesBulk(match_ids, max_errors) /\ UNCHANGED not_bulk
    \/ BulkFetch /\ UNCHANGED not_bulk

SpecBulk == InitBulk /\ [][NextBulk]_vars

\* ------------------------------------------------------------------ claims

\* C1: in every reachable state both token counts lie between 0 and the
\* capacity of their bucket.
C1_TokensWithinCapacity ==
    /\ 0 <= short_tokens /\ short_tokens <= short_limit * TS
    /\ 0 <= long_tokens /\ long_tokens <= long_limit * TS

\* A grant has just emptied the short bucket, later than time 0, while
\* another thread sleeps inside acquire.
C1_Witness ==
    /\ ev.op = "attempt" /\ ev.ok
    /\ short_tokens = 0
    /\ clock > 0
    /\ \E t \in Threads : pc[t] = "sleeping"

\* C2: every acquire attempt and every try_acquire with cost c is granted
\* exactly when both just-refilled buckets hold c; a granted one lowers both
\* buckets by c from their just-refilled values and a refused one lowers neither.
C2_DebitBothOrNeither ==
    [][ev'.op \in {"attempt", "try_acquire"} =>
          LET c == ev'.cost * TS
              st == RefilledShort(clock)
              lt == RefilledLong(clock)
          IN  /\ ev'.ok <=> (st >= c /\ lt >= c)
              /\ ev'.ok => short_tokens' = st - c /\ long_tokens' = lt - c
              /\ ~ev'.ok => short_tokens' = st /\ long_tokens' = lt]_vars

\* A try_acquire was refused although the short bucket held enough: the long
\* bucket was short, and the short bucket was left alone.
C2_Witness ==
    /\ ev.op = "try_acquire" /\ ~ev.ok
    /\ short_tokens >= ev.cost * TS
    /\ long_tokens < ev.cost * TS

\* C3: in each bucket the total cost granted since construction (or the last
\* reset) never exceeds the capacity plus what was refilled since then.
C3_NoTokenGrantedTwice ==
    /\ granted * TS <= short_limit * TS + (clock - epoch) * short_refill_rate
    /\ granted * TS <= long_limit * TS + (clock - epoch) * long_refill_rate

\* More than the short capacity has been granted, the last grant to a thread
\* in acquire while another thread is in acquire too.
C3_Witness ==
    /\ granted > short_limit
    /\ ev.op = "attempt" /\ ev.ok
    /\ \E t \in Threads : t # ev.thread /\ pc[t] # "idle"

\* C4: the total cost granted at the times of any interval of length
\* short_window is at most short_limit, and likewise for the long window.
GrantedIn(a, len) ==
    LET RECURSIVE Sum(_)
        Sum(k) == IF k >= a + len \/ k \notin DOMAIN granted_at
                  THEN 0
                  ELSE granted_at[k] + Sum(k + 1)
    IN  Sum(a)

C4_WindowLimit ==
    \A a \in DOMAIN granted_at :
        /\ GrantedIn(a, short_window) <= short_limit
        /\ GrantedIn(a, long_window) <= long_limit

\* C5: acquire returns False only from the timeout check after a refused
\* attempt, with a deadline set and the clock at or past it (so never with
\* timeout=None); and an attempt that finds both just-refilled buckets holding
\* the cost returns True, whatever the deadline.
C5_FalseOnlyAtDeadline ==
    [][\A t \in Threads :
          /\ (pc[t] # "idle" /\ pc'[t] = "idle") =>
                IF ev'.ok
                THEN pc[t] = "attempt"
                ELSE /\ pc[t] = "check_timeout"
                     /\ deadline[t] # NoDeadline
                     /\ clock >= deadline[t]
          /\ (/\ pc[t] = "attempt" /\ pc'[t] # "attempt"
              /\ RefilledShort(clock) >= tokens[t] * TS
              /\ RefilledLong(clock) >= tokens[t] * TS) =>
                pc'[t] = "idle" /\ ev'.ok]_vars

\* An acquire has just returned False, at a time later than 0 and after tokens
\* were granted.
C5_Witness ==
    /\ ev.op = "timeout" /\ ~ev.ok
    /\ clock > 0
    /\ granted > 0
    /\ pc[ev.thread] = "idle"

\* C6 as stated: every acquire(cost, timeout=None) with cost at most both
\* capacities eventually returns, whatever other callers do.
C6_EveryCallerReturns ==
    \A t \in Threads :
        (pc[t] = "attempt" /\ tokens[t] <= Min(short_limit, long_limit))
            ~> (pc[t] = "idle")

\* C6 as amended: every acquire(cost, timeout=None) with cost at most both
\* capacities eventually returns True, unless other callers go on being
\* granted tokens for ever.
C6_ReturnsUnlessOutrun ==
    \A t \in Threads :
        \/ []<>(ev.op = "attempt" /\ ev.ok /\ ev.thread # t)
        \/ (pc[t] = "attempt" /\ tokens[t] <= Min(short_limit, long_limit))
               ~> (pc[t] = "idle" /\ ev.op = "attempt" /\ ev.ok /\ ev.thread = t)

\* A caller has just gone to sleep inside an acquire that asks for as much as
\* the smaller bucket can hold, the short bucket not being full.
C6_Witness ==
    \E t \in Threads :
        /\ pc[t] = "sleeping"
        /\ tokens[t] = Min(short_limit, long_limit)
        /\ ev.op = "sleep" /\ ev.thread = t
        /\ short_tokens < short_limit * TS

\* C7: with the default limiter starting full, try_acquire(1) is granted while
\* fewer than 20 were granted, all at this same instant; once 20 were granted
\* at one instant (the short bucket was emptied by them), the next
\* try_acquire(1) is granted exactly when at least 5 ticks (0.05 s) have passed
\* since that instant, whatever refused attempts came in between.
C7_BurstThenRefill ==
    [][ev'.op = "try_acquire" =>
          /\ (granted < 20 /\ (granted = 0 \/ (base_time = clock /\ base_short = (20 - granted) * TS)))
                => ev'.ok
          /\ (granted = 20 /\ base_short = 0)
                => (ev'.ok <=> clock - base_time >= 5)]_vars

\* A 21st try_acquire(1) has just been granted, 5 ticks or more after time 0.
C7_Witness ==
    /\ granted = 21
    /\ ev.op = "try_acquire" /\ ev.ok
    /\ base_time >= 5
    /\ long_tokens < 80 * TS

\* C8: every observation (acquire attempt, try_acquire, get_wait_time) sets
\* both last-refill timestamps to the current time and each bucket to
\* min(capacity, tokens + elapsed * capacity / window), less the cost when it
\* grants; and as long as nothing is granted, the buckets are what one refill
\* over the whole time since the last grant or reset gives.
C8_RefillOnEveryObservation ==
    /\ [][ev'.op \in {"attempt", "try_acquire", "get_wait_time"} =>
             LET d == IF ev'.op # "get_wait_time" /\ ev'.ok THEN ev'.cost * TS ELSE 0
             IN  /\ short_last_refill' = clock
                 /\ long_last_refill' = clock
                 /\ short_tokens' + d =
                        Min(short_limit * TS,
                            short_tokens + ((clock - short_last_refill) * short_limit * TS) \div short_window)
                 /\ long_tokens' + d =
                        Min(long_limit * TS,
                            long_tokens + ((clock - long_last_refill) * long_limit * TS) \div long_window)]_vars
    /\ [](/\ short_tokens =
                Min(short_limit * TS,
                    base_short + ((short_last_refill - base_time) * short_limit * TS) \div short_window)
           /\ long_tokens =
                Min(long_limit * TS,
                    base_long + ((long_last_refill - base_time) * long_limit * TS) \div long_window))

\* A refused try_acquire observed the buckets three ticks or more after the
\* last grant or reset, with the long bucket partly refilled and not yet full.
C8_Witness ==
    /\ ev.op = "try_acquire" /\ ~ev.ok
    /\ short_last_refill >= base_time + 3
    /\ base_long < long_tokens /\ long_tokens < long_limit * TS

\* C9: a refill never lowers a bucket, whatever the clock reads.
C9_RefillNeverLowers ==
    [][ev'.op \in {"attempt", "try_acquire", "get_wait_time"} =>
          LET d == IF ev'.op # "get_wait_time" /\ ev'.ok THEN ev'.cost * TS ELSE 0
          IN  /\ short_tokens' + d >= short_tokens
              /\ long_tokens' + d >= long_tokens]_vars

\* C10: a blocked acquire sleeps max(0.01 s, max(short_wait, long_wait)).
C10_SleepsForLimitingBucket ==
    [][ev'.op = "sleep" =>
          ev'.val = Max(SleepFloor * WS,
                        Max(ShortWait(ev'.cost, short_tokens), LongWait(ev'.cost, long_tokens)))]_vars

\* C11: every physical attempt of a logical request, retries included, is
\* preceded by its own granted acquire(): at no time has a request made more
\* attempts than tokens were debited since it began, and when it has ended the
\* two numbers are equal.
C11_EveryAttemptDebited ==
    /\ attempts <= granted - debited
    /\ (phase = "idle" /\ requests > 0) => attempts = granted - debited

\* C12: a logical request never makes more than max_retries + 1 physical
\* attempts, and one that ends on a transient failure (every attempt before
\* its last failed transiently too, or the request would have ended there) ends
\* by raising RiotAPIError, not by returning a payload.
C12_BoundedAttemptsThenFatal ==
    /\ [](attempts <= max_retries + 1)
    /\ [](phase = "retry" => (last.status \in StatusForcelist \/ last.status \in TransportErrors))
    /\ [][(/\ ev'.op = "get"
           /\ phase' = "idle"
           /\ (last'.status \in StatusForcelist \/ last'.status \in TransportErrors)) =>
                /\ result' = "RiotAPIError"
                /\ attempts' = max_retries + 1]_vars

\* A request of a client with two retries has ended by raising RiotAPIError
\* after three attempts, the last one answered 503.
C12_Witness ==
    /\ phase = "idle"
    /\ max_retries = 2
    /\ attempts = 3
    /\ last.status = "503"
    /\ result = "RiotAPIError"

\* C13: when an attempt is answered 429 with Retry-After r > 0 and the request
\* has made no more than max_retries attempts, the request does not end: it
\* is about to make another attempt, no sooner than r seconds after the 429;
\* and whatever happens next in a request that is about to retry is one more
\* attempt of that same request.
C13_RetryAfterHonoured ==
    /\ [][(/\ ev'.op = "get"
           /\ last'.status = "429"
           /\ last'.retry_after > 0
           /\ attempts' <= max_retries) =>
                /\ phase' = "retry"
                /\ result' = "none"
                /\ clock' >= last'.at + last'.retry_after * TicksPerSecond]_vars
    /\ [][(phase = "retry" /\ last.status = "429" /\ last.retry_after > 0) =>
                /\ clock >= last.at + last.retry_after * TicksPerSecond
                /\ ev'.op = "get"
                /\ requests' = requests
                /\ attempts' = attempts + 1]_vars

\* The second attempt of a request was answered 429 with the longest
\* Retry-After, retries remained, and the request now waits to send its third.
C13_Witness ==
    /\ phase = "retry"
    /\ attempts = 2
    /\ last.status = "429"
    /\ last.retry_after = MaxRetryAfter
    /\ clock >= last.at + MaxRetryAfter * TicksPerSecond

\* C14: an attempt answered 404 or 403 is the last of its request, whatever
\* retries remain (so a request whose first answer it is has made exactly one
\* attempt): the request ends at once, raising DataNotFoundError for 404 and
\* plain RiotAPIError (neither DataNotFoundError nor RateLimitError) for 403.
C14_NonRetryableEndsAtOnce ==
    [][(ev'.op = "get" /\ last'.status \in {"403", "404"}) =>
            /\ phase' = "idle"
            /\ attempts' = attempts + 1
            /\ (phase = "acquire" => attempts' = 1)
            /\ result' = (IF last'.status = "404" THEN "DataNotFoundError" ELSE "RiotAPIError")
            /\ result' # "RateLimitError"
            /\ IsRiotAPIError(result')]_vars

\* The second request of a client with retries left has ended after a single
\* attempt that was answered 404, raising DataNotFoundError.
C14_Witness ==
    /\ phase = "idle"
    /\ requests = 2
    /\ max_retries > 0
    /\ attempts = 1
    /\ last.status = "404"
    /\ result = "DataNotFoundError"

\* the run record of the current invocation
RunRecord == data_collection_log[run.log_id]

\* C15: an invocation that created its run record and has returned has moved
\* the record from 'started' to 'completed' or 'failed', and a record that is
\* no longer 'started' is never written again.
C15_RunFinalisedOnce ==
    /\ []((at = "returned" /\ run.log_id # 0) => RunRecord.status \in {"completed", "failed"})
    /\ [][\A id \in DOMAIN data_collection_log :
             data_collection_log[id].status # "started" =>
                 data_collection_log'[id] = data_collection_log[id]]_vars

\* C16 as stated: when a statement of the try block has raised and the except
\* block has written the run record, the record is 'failed' with the message
\* and the invocation ends by raising, not by returning.
C16_FailedThenReraised ==
    [][(at = "except" /\ ev'.ok) =>
            /\ data_collection_log'[run.log_id].status = "failed"
            /\ data_collection_log'[run.log_id].error_message = run.error_message
            /\ at' = "raised"]_vars

\* C16 as amended: when a statement of the try block has raised, errors is
\* incremented and the record is written 'failed' with the message, after
\* which the invocation returns its statistics; only when that write itself
\* raises does the invocation raise, and the record is then left as it was.
C16_FailedThenReturned ==
    [][at = "except" =>
            /\ stats'.errors = stats.errors + 1
            /\ IF ev'.ok
               THEN /\ data_collection_log'[run.log_id].status = "failed"
                    /\ data_collection_log'[run.log_id].error_message = run.error_message
                    /\ run.error_message # "NULL"
                    /\ at' = "returned"
               ELSE /\ data_collection_log' = data_collection_log
                    /\ RunRecord.status = "started"
                    /\ at' = "raised"]_vars

\* filter_new_matches raised after both players were processed; the run is
\* recorded 'failed' and the invocation has returned.
C16_Witness ==
    /\ at = "returned"
    /\ ev.op = "except" /\ ev.ok
    /\ RunRecord.status = "failed"
    /\ stats.players_processed = 2
    /\ stats.unique_matches = 2
    /\ stats.errors = 1

\* the counters that can be read back from a run record
LoggedCounters(rec) ==
    [players_processed |-> rec.players_processed,
     matches_saved |-> rec.matches_fetched,
     api_calls |-> rec.api_calls_made]

\* C17 as stated: the terminal run record of an invocation that has returned
\* holds every counter of the statistics, equal to the value returned.
C17_SnapshotOfEveryCounter ==
    (at = "returned" /\ run.log_id # 0 /\ RunRecord.status # "started") =>
        \A k \in DOMAIN stats :
            /\ k \in DOMAIN LoggedCounters(RunRecord)
            /\ LoggedCounters(RunRecord)[k] = stats[k]

\* C17 as amended: the terminal run record holds the players processed, the
\* matches saved and the API calls, equal to the values returned, whether the
\* run completed or failed.
C17_SnapshotOfLoggedCounters ==
    (at = "returned" /\ run.log_id # 0 /\ RunRecord.status # "started") =>
        \A k \in {"players_processed", "matches_saved", "api_calls"} :
            LoggedCounters(RunRecord)[k] = stats[k]

\* A run that saved a match and then failed in its final write is recorded
\* 'failed' with what it had counted.
C17_Witness ==
    /\ at = "returned"
    /\ RunRecord.status = "failed"
    /\ RunRecord.matches_fetched = 1
    /\ RunRecord.players_processed = 2
    /\ RunRecord.api_calls_made = 3
    /\ stats.match_ids_fetched > stats.matches_saved

C19_BatchToleratesFailures ==
    (run.batch # {} /\ faults = 0) =>
        LET n == Cardinality(run.batch)
            failed == {m \in run.batch : upstream.body[m] # "payload"}
            k == Cardinality(failed)
        IN  /\ at \notin {"raised", "except"}
            /\ at = "returned" =>
                /\ run.new_match_ids = {}
                /\ body_requests = n
                /\ RunRecord.status = "completed"
                /\ stats.matches_saved = n - k
                /\ stats.errors = run.errors_before + k
                /\ (run.batch \ failed) \subseteq StoredIds(raw_matches)
                /\ failed \cap StoredIds(raw_matches) = {}

\* A run whose batch was both matches, the first not found and the second
\* fetched, after one player's listing had failed, has returned.
C19_Witness ==
    /\ at = "returned" /\ faults = 0
    /\ run.batch = MatchIds
    /\ upstream.body["m1"] = "DataNotFoundError"
    /\ upstream.body["m2"] = "payload"
    /\ run.errors_before = 1
    /\ stats.errors = 2
    /\ stats.matches_saved = 1
    /\ StoredIds(raw_matches) = {"m2"}

\* the puuids of metadata.participants of match m
Listed(m) == {PayloadOf(m).metadata[k] : k \in DOMAIN PayloadOf(m).metadata}

\* C20: the participation records are those of saved matches, and a saved
\* match has exactly one record for each listed participant that is a known
\* player and none for any other; each record carries the placement of the
\* info.participants entry with its puuid (None when there is no such entry).
C20_ParticipationOfKnownPlayers ==
    /\ \A r \in player_match_history : r.match_id \in StoredIds(raw_matches)
    /\ \A m \in StoredIds(raw_matches) :
        LET recs == {r \in player_match_history : r.match_id = m}
            info == PayloadOf(m).info
        IN  /\ {r.puuid : r \in recs} = Listed(m) \cap Puuids(raw_players)
            /\ \A r, q \in recs : r.puuid = q.puuid => r = q
            /\ \A r \in recs :
                IF \E k \in DOMAIN info : info[k].puuid = r.puuid
                THEN \E k \in DOMAIN info :
                        info[k].puuid = r.puuid /\ info[k].placement = r.placement
                ELSE r.placement = NoPlacement

\* Both matches were saved with p2 the only known player: p2 has its record
\* for each, and p1 and x, listed in both, have none.
C20_Witness ==
    /\ Puuids(raw_players) = {"p2"}
    /\ StoredIds(raw_matches) = MatchIds
    /\ {[puuid |-> r.puuid, match_id |-> r.match_id, placement |-> r.placement] :
            r \in player_match_history} =
          {[puuid |-> "p2", match_id |-> "m1", placement |-> 6],
           [puuid |-> "p2", match_id |-> "m2", placement |-> 5]}
    /\ Cardinality(player_match_history) = 2

\* C21: when filter_new_matches returns, its result is the collected ids minus
\* the ids stored at that time and matches_skipped is the number of collected
\* ids that are stored; a match body is requested only for an id of that
\* result.
C21_OnlyNewMatchesRequested ==
    /\ [][(at = "filter" /\ at' # "except") =>
            /\ run'.batch = run.all_match_ids \ StoredIds(raw_matches)
            /\ run'.new_match_ids = run'.batch
            /\ stats'.matches_skipped =
                  Cardinality(run.all_match_ids \cap StoredIds(raw_matches))]_vars
    /\ [](\A m \in MatchIds : calls.body[m] > 0 => m \in run.batch)

\* A second run collected both matches while m1 was stored: it skipped m1 and
\* requested the body of m2 only.
C21_Witness ==
    /\ runs = 2
    /\ run.all_match_ids = MatchIds
    /\ run.batch = {"m2"}
    /\ stats.matches_skipped = 1
    /\ calls.body["m2"] = 1 /\ calls.body["m1"] = 0

\* the ids returned to this invocation by the list requests that succeeded
Collected ==
    UNION {upstream.ids[p].match_ids :
             p \in {q \in Players : calls.ids[q] > 0 /\ upstream.ids[q].ok}}

\* C22: within one invocation the body of a match is requested at most once,
\* however many players list it, and unique_matches is set to the number of
\* distinct ids returned for the players whose list request succeeded.
C22_EachMatchRequestedOnce ==
    /\ [](\A m \in MatchIds : calls.body[m] <= 1)
    /\ [][at = "filter" => stats'.unique_matches = Cardinality(Collected)]_vars

\* Both players list m1, p1 lists m2 as well: three ids fetched, two unique,
\* and m1 was requested once.
C22_Witness ==
    /\ upstream.ids["p1"] = [ok |-> TRUE, match_ids |-> MatchIds]
    /\ upstream.ids["p2"] = [ok |-> TRUE, match_ids |-> {"m1"}]
    /\ stats.match_ids_fetched = 3
    /\ stats.unique_matches = 2
    /\ calls.body["m1"] = 1
    /\ at = "returned"

\* the invocation is over
Ended == at \in {"returned", "raised"}

\* the invocation went through the listing loop, which cannot raise, and so
\* reached the dedup step that follows it
ReachedDedup == session.state # "none" /\ at \notin {"match_ids", "filter"}

RECURSIVE Total(_, _)
Total(count, keys) ==
    IF keys = {} THEN 0
    ELSE LET k == CHOOSE x \in keys : TRUE
         IN  count[k] + Total(count, keys \ {k})

\* C30: at the end of an invocation api_calls is the number of list requests
\* plus the number of body requests it issued, failed ones included.
C30_ApiCallsCountsEveryRequest ==
    Ended => stats.api_calls = Total(calls.ids, Players) + Total(calls.body, MatchIds)

\* C28: whatever count fetch_and_save_matches or another caller passes, the
\* count placed in the match-ID request is the smaller of that count and 20,
\* and so it never exceeds 20.
C28_CountCappedAtTwenty ==
    ev.op = "get_match_ids_by_puuid" =>
        /\ url.count = (IF ev.val <= 20 THEN ev.val ELSE 20)
        /\ url.count <= 20

\* The pipeline was called with matches_per_player = 21 and has built a
\* request with count = 20.
C28_Witness ==
    /\ matches_per_player = 21
    /\ ev.op = "get_match_ids_by_puuid" /\ ev.val = 21
    /\ url.count = 20 /\ url.start = 0

\* the puuids of a roster, and the last position at which the roster lists p
Listing(list) == {list[k].puuid : k \in DOMAIN list}

LastOf(list, p) ==
    CHOOSE k \in DOMAIN list :
        /\ list[k].puuid = p
        /\ \A j \in DOMAIN list : list[j].puuid = p => j <= k

\* C25: in every state of the store, whatever runs
\* came before and whichever of their saves failed, every participation record
\* is of a stored player and of a stored match, and no two records are of the
\* same player and match.
C25_ParticipationRefersToStoredRows ==
    /\ \A r \in player_match_history :
        /\ r.puuid \in Puuids(raw_players)
        /\ r.match_id \in StoredIds(raw_matches)
    /\ \A r, q \in player_match_history :
        (r.puuid = q.puuid /\ r.match_id = q.match_id) => r = q

\* After a leaderboard run, a match run in which the save of m1 failed has
\* stored m2 with the records of both players, p2 being listed twice in it.
C25_Witness ==
    /\ Puuids(raw_players) = Players
    /\ upstream.body["m1"] = "payload"
    /\ calls.failed = {"m1"}
    /\ StoredIds(raw_matches) = {"m2"}
    /\ {r.puuid : r \in player_match_history} = Players

\* C26: when save_players_to_db(players) succeeds, inserted + updated is the
\* length of the list, inserted is the number of distinct puuids of the list
\* that had no row before, every puuid of the list has exactly one row
\* afterwards, with the league points and tier of its last occurrence, and no
\* puuid has two rows.
C26_UpsertCountsAndLastFields ==
    [][(lb.at = "save" /\ lb'.at = "complete") =>
        LET list == lb.all_players
        IN  /\ lb'.stats.players_inserted + lb'.stats.players_updated = Len(list)
            /\ lb'.stats.players_inserted =
                  Cardinality(Listing(list) \ Puuids(raw_players))
            /\ \A p \in Listing(list) :
                  \E r \in raw_players' :
                      /\ r.puuid = p
                      /\ r.league_points = list[LastOf(list, p)].leaguePoints
                      /\ r.tier = list[LastOf(list, p)].tier
            /\ \A r, q \in raw_players' : r.puuid = q.puuid => r = q
            /\ Puuids(raw_players') = Puuids(raw_players) \cup Listing(list)]_vars

\* p1 was listed by both league endpoints: one insert and one update, and its
\* row has the league points and the tier of the second entry.
C26_Witness ==
    /\ lb.at = "complete"
    /\ lb.before = {}
    /\ lb.all_players =
          <<[puuid |-> "p1", leaguePoints |-> 1, tier |-> "GRANDMASTER"],
            [puuid |-> "p1", leaguePoints |-> 2, tier |-> "CHALLENGER"]>>
    /\ lb.stats.players_inserted = 1
    /\ lb.stats.players_updated = 1
    /\ \E r \in raw_players :
          r.puuid = "p1" /\ r.league_points = 2 /\ r.tier = "CHALLENGER"
    /\ Cardinality(raw_players) = 1

\* the entries that the k-th league request of the loop contributed
Segment(k) ==
    IF lb.answers[k].answer.kind = "entries" THEN lb.answers[k].answer.entries ELSE <<>>

\* the number of roster entries contributed by the requests before the k-th
RECURSIVE Offset(_)
Offset(k) == IF k <= 1 THEN 0 ELSE Offset(k - 1) + Len(Segment(k - 1))

\* C27: the roster that get_grandmaster_plus_players or
\* get_all_masters_plus_players returns is made of the entries its league
\* requests returned, tier after tier in the order of the method, each entry
\* with the tier of its endpoint; and save_players_to_db stores for a player
\* the tier of the endpoint that listed it last, for no entry the default.
C27_RosterTaggedByEndpoint ==
    /\ []((lb.tiers = <<>> /\ lb.answers # <<>>) =>
            /\ [k \in DOMAIN lb.answers |-> lb.answers[k].tier] =
                  (IF lb.log_id # 0 THEN <<"GRANDMASTER", "CHALLENGER">>
                   ELSE <<"MASTER", "GRANDMASTER", "CHALLENGER">>)
            /\ Len(lb.all_players) = Offset(Len(lb.answers) + 1)
            /\ \A k \in DOMAIN lb.answers : \A i \in DOMAIN Segment(k) :
                  LET e == lb.all_players[Offset(k) + i]
                  IN  /\ e.puuid = Segment(k)[i].puuid
                      /\ e.leaguePoints = Segment(k)[i].leaguePoints
                      /\ e.tier = lb.answers[k].tier)
    /\ [][(lb.at = "save" /\ lb'.at = "complete") =>
            \A k \in DOMAIN lb.answers : \A i \in DOMAIN Segment(k) :
                LET p == Segment(k)[i].puuid
                IN  (\A j \in DOMAIN lb.all_players :
                        lb.all_players[j].puuid = p => j <= Offset(k) + i)
                    => \A r \in raw_players' : r.puuid = p => r.tier = lb.answers[k].tier]_vars

\* The grandmaster endpoint listed p1 and the challenger endpoint p2; the
\* roster was saved, p1 as GRANDMASTER and p2 as CHALLENGER.
C27_Witness ==
    /\ lb.at = "complete"
    /\ lb.all_players =
          <<[puuid |-> "p1", leaguePoints |-> 2, tier |-> "GRANDMASTER"],
            [puuid |-> "p2", leaguePoints |-> 1, tier |-> "CHALLENGER"]>>
    /\ {[puuid |-> r.puuid, tier |-> r.tier] : r \in raw_players} =
          {[puuid |-> "p1", tier |-> "GRANDMASTER"], [puuid |-> "p2", tier |-> "CHALLENGER"]}

\* C29: an invocation of fetch_and_save_matches or fetch_and_save_leaderboard
\* that has opened a client keeps its session open inside the with block and
\* has closed it, once, when it returns or raises, whichever way the block
\* was left; the session is never closed twice.
C29_SessionClosedOnce ==
    /\ [](session.closes <= 1)
    /\ [](at \in {"match_ids", "filter", "store"} => session.state = "open")
    /\ []((lb.at = "tiers" /\ lb.log_id # 0) => session.state = "open")
    /\ [][(at \notin {"idle", "returned", "raised"} /\ at # at'
              /\ at' \in {"complete", "except", "returned", "raised"}
              /\ session.state # "none") =>
            (session'.state = "closed" /\ session'.closes = 1)]_vars
    /\ [][(lb.at \notin {"idle", "returned", "raised", "fetched"} /\ lb.at # lb'.at
              /\ lb.log_id # 0 /\ session.state # "none"
              /\ lb'.at \in {"save", "complete", "except", "returned", "raised"}) =>
            (session'.state = "closed" /\ session'.closes = 1)]_vars

\* filter_new_matches raised inside the with block after a list request had
\* failed; the run was recorded 'failed' and returned with the session closed.
C29_Witness ==
    /\ at = "returned"
    /\ run.error_message = "filter_new_matches"
    /\ stats.errors = 2
    /\ session = [state |-> "closed", closes |-> 1]

\* C24: however the steps of concurrent runs interleave, the store never has
\* two records of one match id and a stored match record stays as it was
\* written; a run that fetches a match another run has stored since its
\* filter read the store leaves the match records and the participation
\* records exactly as they were.
C24_StaleReadOnlyRefetches ==
    /\ [](\A r, q \in raw_matches : r.match_id = q.match_id => r = q)
    /\ [][raw_matches \subseteq raw_matches']_vars
    /\ [][\A r \in Runners, m \in MatchIds :
            (/\ racer'[r].requested[m] = racer[r].requested[m] + 1
             /\ m \in StoredIds(raw_matches)) =>
                /\ raw_matches' = raw_matches
                /\ player_match_history' = player_match_history]_vars

\* Both runs found m1 new; the first stored it, then the second fetched it
\* again and its insert did nothing.
C24_Witness ==
    /\ racer[1].inserted = {"m1"}
    /\ racer[2].requested["m1"] = 1
    /\ racer[2].inserted = {}
    /\ racer[2].errors = 0
    /\ racer[2].at = "done"
    /\ Cardinality(raw_matches) = 1

\* the payloads of the ids among the first n of the list whose request was
\* answered by a payload, in the order of the list
RECURSIVE Fetched(_, _, _)
Fetched(match_ids, answers, n) ==
    IF n = 0 THEN <<>>
    ELSE IF answers[n] = "payload"
         THEN Append(Fetched(match_ids, answers, n - 1), PayloadOf(match_ids[n]))
         ELSE Fetched(match_ids, answers, n - 1)

\* C31: get_matches_bulk goes on after a failed match: at every point of a
\* call the list it builds holds exactly the payloads of the ids fetched
\* successfully so far, in input order, len(matches) + error_count is the
\* number of ids processed, it goes on to a further id only while error_count
\* is below max_errors, and error_count never exceeds max_errors.
C31_BulkStopsAtMaxErrors ==
    bulk.at # "idle" =>
        /\ bulk.matches = Fetched(bulk.match_ids, bulk.answers, bulk.i)
        /\ Len(bulk.matches) + bulk.error_count = bulk.i
        /\ (bulk.at = "loop" /\ bulk.i > 0) => bulk.error_count < bulk.max_errors
        /\ bulk.error_count <= bulk.max_errors

\* C32: saving one match is atomic and isolated from the others: when a
\* statement of the transaction of match k raises (the match insert, a
\* lookup of a participant or a participation insert), the store is left
\* exactly as it was before that transaction, so that it holds neither the
\* match row nor any participation row of k and the rows of the matches saved
\* before k are unchanged; k is counted in errors and not in saved_count.
C32_FailedSaveLeavesNoRecord ==
    [][(ev'.op = "get_match_by_id" /\ ev'.val # 0) =>
          /\ raw_matches' = raw_matches
          /\ player_match_history' = player_match_history
          /\ \A k \in run.new_match_ids \ run'.new_match_ids :
                /\ k \notin StoredIds(raw_matches')
                /\ \A h \in player_match_history' : h.match_id # k
                /\ k \in calls'.failed
          /\ stats'.errors = stats.errors + 1
          /\ run'.saved_count = run.saved_count
          /\ (at' = "complete" => stats'.matches_saved = run.saved_count)]_vars

\* a participation insert of m2 has just failed, after m1 and its
\* participation rows were saved in the same run
C32_Witness ==
    /\ ev.op = "get_match_by_id"
    /\ ev.val >= 3
    /\ calls.failed = {"m2"}
    /\ run.saved_count = 1
    /\ stats.errors = 1
    /\ StoredIds(raw_matches) = {"m1"}
    /\ {h.puuid : h \in player_match_history} = {"p1", "p2"}

\* the run record of the leaderboard invocation
LbRecord == data_collection_log[lb.log_id]

\* C33 as stated: once an upsert of save_players_to_db has raised, raw_players
\* is as it was before the call, players_inserted and players_updated are 0,
\* and the invocation ends by returning with its run record 'failed'.
C33_RolledBackThenFailed ==
    lb.error_message = "save_players_to_db" =>
        /\ raw_players = lb.before
        /\ lb.stats.players_inserted = 0
        /\ lb.stats.players_updated = 0
        /\ lb.at \in {"except", "returned"}
        /\ lb.at = "returned" => LbRecord.status = "failed"

\* C33 as amended: once an upsert of save_players_to_db has raised,
\* raw_players is as it was before the call and players_inserted and
\* players_updated are 0; the invocation returns with its run record 'failed'
\* and the message of the exception, unless the write of the run record
\* raises as well: then the invocation raises and the record stays 'started'.
C33_RolledBackThenFailedOrRaised ==
    lb.error_message = "save_players_to_db" =>
        /\ raw_players = lb.before
        /\ lb.stats.players_inserted = 0
        /\ lb.stats.players_updated = 0
        /\ lb.at \in {"except", "returned", "raised"}
        /\ lb.at = "returned" =>
              /\ LbRecord.status = "failed"
              /\ LbRecord.error_message = "save_players_to_db"
              /\ lb.stats.errors = 1
        /\ lb.at = "raised" => LbRecord.status = "started"

\* the second upsert of a roster of two raised over a store that an earlier
\* run had filled; the invocation has returned with its record 'failed'
C33_Witness ==
    /\ lb.at = "returned"
    /\ lb.error_message = "save_players_to_db"
    /\ lb.failed_at = 2
    /\ Len(lb.all_players) = 2
    /\ raw_players # {}
    /\ raw_players = lb.before
    /\ LbRecord.status = "failed"

\* C34: when a run has ended, also one whose steps interleaved with those of
\* another run saving the same match ids, its matches_saved is the number of
\* match rows that its own inserts created; an insert that did nothing
\* because the row existed is not counted.
C34_SavedCountsOwnInserts ==
    \A r \in Runners :
        racer[r].at = "done" =>
            racer[r].matches_saved = Cardinality(racer[r].inserted)

====
